---- MODULE Spec2Model ----
(***************************************************************************)
(* A model of ree-pak-rs: the extractor (ree-pak-core/src/extract.rs) and  *)
(* the per-entry readers of the PAK handle (ree-pak-core/src/pakfile.rs).  *)
(***************************************************************************)
EXTENDS Integers, Sequences, FiniteSets, TLC

\* ------------------------------------------------------------------ bounds
\* Entries of the archive handed to one extraction run.
MaxEntries == 2
\* Worker threads of the pool a parallel run is installed on.
NumWorkers == 2
\* Bytes of the PAK file the entry readers read.
FileLen == 4
\* Entry readers open at a time on one PakFile.
NumReaders == 2
\* The most bytes one read call asks the backing file or block for.
MaxRead == 2
\* block_size of the chunk table.
BlockSize == 2
\* ChunkedRead taken alone: a u64 of the code is a number of U64Bits bits in
\* the model, a chunk table has up to MaxChunks chunks and a block size of up
\* to MaxBlockSize (a u32 in the code: far fewer bits than a u64).
U64Bits == 4
MaxChunks == 2
MaxBlockSize == 3
\* ExtensionReader taken alone: the stream under it has up to MaxStream
\* bytes and the caller's buffers up to MaxBuf (both beyond the 8 bytes of
\* the magic).
MaxStream == 9
MaxBuf == 9
\* read_archive taken alone: a u32 of the code is a number of U32Bits bits
\* in the model, and a header declares up to MaxTotalFiles entries, or as
\* many as make the size of the entry table overflow.
U32Bits == 8
MaxTotalFiles == 2
\* PakWriter taken alone: up to MaxAlloc entries pre-allocated, up to
\* MaxFiles files started, up to MaxBytes bytes written to a file, in
\* buffers of up to MaxBytes bytes.
MaxAlloc == 2
MaxFiles == 3
MaxBytes == 2
\* A Utf16CaseReader taken alone: strings of up to MaxUnits UTF-16 code
\* units, read into buffers of up to MaxReadBuf bytes.
MaxUnits == 2
MaxReadBuf == 3
\* The loading of a filename list taken alone: list files of up to
\* MaxListLen characters.
MaxListLen == 5
\* An entry record taken alone: the attribute word of the code has 64 bits,
\* that of the model its AttrBits low bits.
AttrBits == 28
\* read_chunk_table taken alone: a u32 of the code (start_low, count) is a
\* number of LowBits bits in the model and a u64 one of twice as many; a
\* table has up to MaxTableLen chunks.
LowBits == 2
MaxTableLen == 3
\* decrypt_resource_data taken alone: streams of up to MaxBlocks blocks; a
\* u64 digit of the code is DigitBytes bytes in the model.
MaxBlocks == 2
DigitBytes == 2

\* ------------------------------------------------------------- the inputs
\* The 64-bit hashes the archives of the model draw from.
Hashes == {1, 2}

\* What reading an entry's payload does: it decodes, it decodes to a payload
\* whose first 8 bytes are a known magic, open_entry rejects it, or the copy
\* fails half way.
DataKinds == {"ok", "ok_magic", "open_err", "read_err"}

Entries == [hash : Hashes, data : DataKinds]


\* A relative output path: directory, stem and extension ("" for none).
KnownName(h) == [dir |-> "natives", stem |-> h, ext |-> "bin"]
UnknownPath(h) == [dir |-> "_Unknown", stem |-> h, ext |-> ""]
WithExtension(p, e) == [p EXCEPT !.ext = e]

Paths ==
    {KnownName(h) : h \in Hashes} \cup {UnknownPath(h) : h \in Hashes}
        \cup {WithExtension(UnknownPath(h), "tex") : h \in Hashes}

\* Option<Arc<FileNameTable>>: no table, or the table of the model, in which
\* hash 1 has a name and hash 2 has none.
FileNameTables ==
    { [some |-> FALSE, known |-> {}], [some |-> TRUE, known |-> {1}] }

\* Option<Arc<EntryFilter>>: no filter, or the filter of the model, given by
\* the hashes it accepts.
Filters ==
    { [some |-> FALSE, accepts |-> {}], [some |-> TRUE, accepts |-> {2}] }

\* A file of the output directory: whether the path holds one, which file it
\* is (the task that created it at which path; task 0: it was there before the
\* run), and its content (who wrote it last, and how much of the payload).
Absent == [exists |-> FALSE, task |-> 0, at |-> UnknownPath(0), by |-> 0, part |-> "none"]
OldFile(p) == [exists |-> TRUE, task |-> 0, at |-> p, by |-> 0, part |-> "old"]
NewFile(i, p) == [exists |-> TRUE, task |-> i, at |-> p, by |-> i, part |-> "empty"]

\* An open file: the file's identity. NoHandle: none open.
HandleOf(f) == [task |-> f.task, at |-> f.at]
NoHandle == [task |-> 0 - 1, at |-> UnknownPath(0)]

\* The output directory before the run: empty, or holding files an earlier
\* run left: the named file, the extension-less file of hash 1 and the renamed
\* file of hash 2.
LeftOver ==
    {KnownName(1), UnknownPath(1), WithExtension(UnknownPath(2), "tex")}
OutputDirs ==
    { [p \in Paths |-> Absent],
      [p \in Paths |-> IF p \in LeftOver THEN OldFile(p) ELSE Absent] }

SeqsUpTo(S, n) == UNION {[1..k -> S] : k \in 0..n}

VARIABLES
    \* the builder's configuration (PakExtractBuilder)
    mode, continue_on_error, overwrite, skip_unknown, file_name_table, filter,
    cancel_flag,
    \* the archive's entries, and how many of them the planning loop has walked
    archive, walked,
    \* run(): its position, the plan, the counters, the error list, the
    \* events handed to on_event (a bag), what run() returned
    pc, tasks, skipped, extracted, errors, events, ret,
    \* the calls of the filter the planning loop has made, in order
    filter_calls,
    \* per planned item: where its closure stands and the file it holds open
    st, handle,
    \* the errors the fail-fast pool has seen
    pool_errs,
    \* the output directory: path -> file (identity and content) or Absent
    fs,
    \* the PAK handle: its backend, and the cursor of the open file, which
    \* every File::try_clone of it shares
    backend, file_pos,
    \* the entry readers open_entry handed out
    readers,
    \* a ChunkedRead, an ExtensionReader, read_archive and a PakWriter, each
    \* taken alone
    chunked, sniffer, parser, writer,
    \* the resolution of one entry's output path, a Utf16CaseReader and the
    \* hashes of a path, the loading of a filename list, and the parsing and
    \* re-serialising of an entry record, each taken alone
    resolver, hasher, loader, codec,
    \* read_chunk_table and decrypt_resource_data, each taken alone
    table_reader, decryptor

vars == <<mode, continue_on_error, overwrite, skip_unknown, file_name_table,
          filter, cancel_flag, archive, walked, pc, tasks, skipped,
          extracted, errors, events, ret, st, handle, pool_errs, fs,
          backend, file_pos, readers, chunked, sniffer, parser, writer,
          filter_calls, resolver, hasher, loader, codec, table_reader,
          decryptor>>

\* The variables of the entry readers, and those of an extraction run.
rd_vars == <<backend, file_pos, readers>>
ex_vars == <<mode, continue_on_error, overwrite, skip_unknown, file_name_table,
             filter, cancel_flag, archive, walked, pc, tasks, skipped,
             extracted, errors, events, ret, st, handle, pool_errs, fs,
             filter_calls>>

lib_vars == <<chunked, sniffer, parser, writer>>
pure_vars == <<table_reader, decryptor>>
fn_vars == <<resolver, hasher, loader, codec, pure_vars>>

config == <<mode, continue_on_error, overwrite, skip_unknown, file_name_table,
            filter, archive, rd_vars, lib_vars, fn_vars>>

\* A component no operation of which runs.
Unused == [state |-> "unused"]

\* None of the functions taken alone is applied.
NoFunctions ==
    /\ resolver = Unused
    /\ hasher = Unused
    /\ loader = Unused
    /\ codec = Unused
    /\ table_reader = Unused
    /\ decryptor = Unused

\* ------------------------------------------------------ the entry readers
\* An entry as open_entry sees it: whether its offset is a byte offset or a
\* chunk index, the offset, and its length (compressed_size of a byte-offset
\* entry, total_len of a chunked one).
ReaderEntries ==
    [kind : {"FileOffset", "ChunkIndex"}, offset : 0..(FileLen - 1),
     size : 1..FileLen]

\* A reader open_entry has not handed out yet, and the fields of a reader:
\* pos and end of MmapRangeReader, limit of Take, and next_chunk_index,
\* remaining, buf and buf_pos of ChunkedRead; out is what it has yielded.
Closed ==
    [state |-> "closed",
     entry |-> [kind |-> "FileOffset", offset |-> 0, size |-> 1],
     pos |-> 0, end |-> 0, limit |-> 0,
     next_chunk_index |-> 0, remaining |-> 0, buf |-> <<>>, buf_pos |-> 0,
     out |-> <<>>]

\* ----------------------------------------------------------------- events
StartEv(n) == [type |-> "Start", total |-> n]
FileStartEv(i) == [type |-> "FileStart", task |-> i]
FileDoneEv(i, e) == [type |-> "FileDone", task |-> i, error |-> e]
FinishEv(x, s, f) ==
    [type |-> "Finish", extracted |-> x, skipped |-> s, failed |-> f]
AbortedEv == [type |-> "Aborted"]

\* on_event(e): the bag of emitted events with e added.
Emit(bag, e) ==
    IF e \in DOMAIN bag THEN [bag EXCEPT ![e] = @ + 1] ELSE bag @@ (e :> 1)

Count(bag, e) == IF e \in DOMAIN bag THEN bag[e] ELSE 0

\* ------------------------------------------------------------------- Init
\* The builder as configured, at the head of run(), the output directory in
\* place; on_event is set, so that events records what the run emits. The
\* entry readers of the PAK handle stay as they are during the run: what
\* reading an entry yields is the entry's data kind.
Init ==
    /\ mode \in {"Sequential", "Parallel"}
    /\ continue_on_error \in BOOLEAN
    /\ overwrite \in BOOLEAN
    /\ skip_unknown \in BOOLEAN
    /\ file_name_table \in FileNameTables
    /\ filter \in Filters
    /\ cancel_flag = FALSE
    /\ archive \in SeqsUpTo(Entries, MaxEntries)
    /\ walked = 0
    /\ pc = "plan"
    /\ tasks = <<>>
    /\ skipped = 0
    /\ filter_calls = <<>>
    /\ extracted = 0
    /\ errors = <<>>
    /\ events = <<>>
    /\ ret = [kind |-> "none"]
    /\ st = <<>>
    /\ handle = <<>>
    /\ pool_errs = {}
    /\ fs \in OutputDirs
    /\ backend = "Mmap"
    /\ file_pos = 0
    /\ readers = [r \in 1..NumReaders |-> Closed]
    /\ chunked = Unused
    /\ sniffer = Unused
    /\ parser = Unused
    /\ writer = Unused
    /\ NoFunctions

\* ------------------------------------------------------------------- plan
\* Whether the table (if any) has a name for the hash.
HasName(h) == file_name_table.some /\ h \in file_name_table.known

\* The rel_path the planning loop resolves for an entry.
RelPath(e) == IF HasName(e.hash) THEN KnownName(e.hash) ELSE UnknownPath(e.hash)

\* The entry has no known name and skip_unknown drops it.
SkippedUnknown(e) == ~HasName(e.hash) /\ skip_unknown

\* filter(entry, path_str), when a filter is set.
FilterAccepts(e) == ~filter.some \/ e.hash \in filter.accepts

\* A planning loop that forgets the filter.
PlannedWithoutFilter(e) == ~SkippedUnknown(e)

\* Whether the planning loop pushes the entry to the plan.
Planned(e) == ~SkippedUnknown(e) /\ FilterAccepts(e)

\* A planning loop that applies the filter to every entry.
FilterAppliedToAll(e) == filter.some

\* Whether the planning loop reaches `if let Some(filter)` for the entry and
\* calls the filter: the entries skip_unknown drops `continue` before it.
FilterApplied(e) == ~SkippedUnknown(e) /\ filter.some

\* The arguments of a call of the filter: the entry and path_str, the
\* entry's name in the table (Some) or None.
FilterCall(e) == [entry |-> e, path_str_some |-> HasName(e.hash)]

\* One iteration of `for entry in self.pak.archive().entries()`.
PlanEntry ==
    /\ pc = "plan"
    /\ walked < Len(archive)
    /\ LET e == archive[walked + 1] IN
         /\ walked' = walked + 1
         /\ filter_calls' = IF FilterApplied(e)
                            THEN Append(filter_calls, FilterCall(e))
                            ELSE filter_calls
         /\ IF Planned(e)
            THEN /\ tasks' = Append(tasks, [entry |-> e, rel |-> RelPath(e)])
                 /\ skipped' = skipped
            ELSE /\ tasks' = tasks
                 /\ skipped' = skipped + 1
    /\ UNCHANGED <<config, cancel_flag, pc, extracted, errors, events, ret, st,
                   handle, pool_errs, fs>>

\* --------------------------------------------------------------- dispatch
ExtractReport(x, s, errs) ==
    [extracted |-> x, skipped |-> s, failed |-> Len(errs), errors |-> errs]

Tasks == 1..Len(tasks)

\* A dispatch whose Start carries the number of entries of the archive.
DispatchTotalOfArchive ==
    /\ pc = "plan"
    /\ walked = Len(archive)
    /\ st' = [i \in Tasks |-> "pending"]
    /\ handle' = [i \in Tasks |-> NoHandle]
    /\ IF cancel_flag
       THEN /\ events' = Emit(Emit(events, StartEv(Len(archive))), AbortedEv)
            /\ ret' = [kind |-> "ok", report |-> ExtractReport(0, skipped, <<>>)]
            /\ pc' = "returned"
       ELSE /\ events' = Emit(events, StartEv(Len(archive)))
            /\ ret' = ret
            /\ pc' = "work"
    /\ UNCHANGED <<config, cancel_flag, walked, tasks, skipped, filter_calls, extracted,
                   errors, pool_errs, fs>>

\* The end of the planning loop: Start{total}, then the cancel check before
\* dispatch, which returns an empty report after Aborted.
Dispatch ==
    /\ pc = "plan"
    /\ walked = Len(archive)
    /\ st' = [i \in Tasks |-> "pending"]
    /\ handle' = [i \in Tasks |-> NoHandle]
    /\ IF cancel_flag
       THEN /\ events' = Emit(Emit(events, StartEv(Len(tasks))), AbortedEv)
            /\ ret' = [kind |-> "ok", report |-> ExtractReport(0, skipped, <<>>)]
            /\ pc' = "returned"
       ELSE /\ events' = Emit(events, StartEv(Len(tasks)))
            /\ ret' = ret
            /\ pc' = "work"
    /\ UNCHANGED <<config, cancel_flag, walked, tasks, skipped, filter_calls, extracted,
                   errors, pool_errs, fs>>

\* threads is Some(n) and rayon::ThreadPoolBuilder::build fails: run() returns
\* the error before any item is handed to a worker. Nothing else reads
\* threads (the pool has NumWorkers workers either way), so the model does
\* not keep it.
PoolBuildFails ==
    /\ pc = "work"
    /\ mode = "Parallel"
    /\ \A i \in Tasks : st[i] = "pending"
    /\ ret' = [kind |-> "err", task |-> 0, error |-> "ThreadPoolBuild"]
    /\ pc' = "returned"
    /\ UNCHANGED <<config, cancel_flag, walked, tasks, skipped, filter_calls, extracted,
                   errors, events, st, handle, pool_errs, fs>>

\* The caller (or any other thread) sets the shared cancel flag.
Cancel ==
    /\ pc # "returned"
    /\ ~cancel_flag
    /\ cancel_flag' = TRUE
    /\ UNCHANGED <<config, walked, tasks, skipped, filter_calls, extracted, errors, events,
                   ret, pc, st, handle, pool_errs, fs>>

\* -------------------------------------------------------------- the items
\* An extractor that never looks at the cancel flag.
should_abort_never == FALSE

\* PakExtractBuilder::should_abort: a load of the one shared flag (None is the
\* flag nobody ever sets).
should_abort == cancel_flag

InFlight == {i \in Tasks : st[i] \in {"opened", "copied"}}
Ended == {i \in Tasks : st[i] \in {"done", "aborted", "dropped"}}

\* Whether item i is the one the run takes up next: the next of the loop in a
\* sequential run; any pending item while a worker is free in a parallel one.
MayBegin(i) ==
    /\ pc = "work"
    /\ st[i] = "pending"
    /\ IF mode = "Sequential"
       THEN \A j \in Tasks : j < i => st[j] = "done"
       ELSE Cardinality(InFlight) < NumWorkers

\* try_for_each stops handing out items once an item has failed: a pending
\* item is never run.
PoolDrop(i) ==
    /\ pc = "work"
    /\ mode = "Parallel"
    /\ ~continue_on_error
    /\ pool_errs # {}
    /\ st[i] = "pending"
    /\ st' = [st EXCEPT ![i] = "dropped"]
    /\ UNCHANGED <<config, cancel_flag, walked, tasks, skipped, filter_calls, extracted,
                   errors, events, ret, pc, handle, pool_errs, fs>>

\* ------------------------------------------------- the result of an item
\* The (hash, path, message) tuple of a failed item.
ErrorTuple(i, msg) ==
    [hash |-> tasks[i].entry.hash, path |-> tasks[i].rel, msg |-> msg]

\* A sequential arm that goes on after an error whatever continue_on_error.
DoneSequentialGoesOn(i, res, evs) ==
    /\ events' = Emit(evs, FileDoneEv(i, IF res = "ok" THEN "none" ELSE res))
    /\ pool_errs' = pool_errs
    /\ IF res # "ok"
       THEN errors' = Append(errors, ErrorTuple(i, res)) /\ extracted' = extracted
       ELSE errors' = errors /\ extracted' = extracted + 1
    /\ UNCHANGED <<ret, pc>>

\* A sequential arm that counts a failed item as extracted as well.
DoneSequentialCountsFailure(i, res, evs) ==
    /\ events' = Emit(evs, FileDoneEv(i, IF res = "ok" THEN "none" ELSE res))
    /\ pool_errs' = pool_errs
    /\ extracted' = extracted + 1
    /\ IF res # "ok"
       THEN /\ errors' = Append(errors, ErrorTuple(i, res))
            /\ IF continue_on_error
               THEN ret' = ret /\ pc' = pc
               ELSE /\ ret' = [kind |-> "err", task |-> i, error |-> res]
                    /\ pc' = "returned"
       ELSE UNCHANGED <<errors, ret, pc>>

\* Sequential arm, given the result of extract_one ("ok" or the error): count
\* or record it, FileDone, and on an error without continue_on_error return it.
DoneSequential(i, res, evs) ==
    /\ events' = Emit(evs, FileDoneEv(i, IF res = "ok" THEN "none" ELSE res))
    /\ pool_errs' = pool_errs
    /\ IF res # "ok"
       THEN /\ errors' = Append(errors, ErrorTuple(i, res))
            /\ extracted' = extracted
            /\ IF continue_on_error
               THEN ret' = ret /\ pc' = pc
               ELSE /\ ret' = [kind |-> "err", task |-> i, error |-> res]
                    /\ pc' = "returned"
       ELSE /\ extracted' = extracted + 1
            /\ UNCHANGED <<errors, ret, pc>>

\* A fail-fast arm whose `result?` comes before the FileDone.
DoneFailFastEarlyReturn(i, res, evs) ==
    /\ IF res # "ok"
       THEN /\ pool_errs' = pool_errs \cup {[task |-> i, error |-> res]}
            /\ extracted' = extracted
            /\ events' = evs
       ELSE /\ pool_errs' = pool_errs
            /\ extracted' = extracted + 1
            /\ events' = Emit(evs, FileDoneEv(i, "none"))
    /\ UNCHANGED <<errors, ret, pc>>

\* Parallel arm without continue_on_error: FileDone, then `result?` hands the
\* error to try_for_each, or the item is counted.
DoneFailFast(i, res, evs) ==
    /\ events' = Emit(evs, FileDoneEv(i, IF res = "ok" THEN "none" ELSE res))
    /\ IF res # "ok"
       THEN /\ pool_errs' = pool_errs \cup {[task |-> i, error |-> res]}
            /\ extracted' = extracted
       ELSE /\ pool_errs' = pool_errs
            /\ extracted' = extracted + 1
    /\ UNCHANGED <<errors, ret, pc>>

\* A continue_on_error arm that does not record the error of a failed item.
DoneContinueDropsError(i, res, evs) ==
    /\ IF res # "ok"
       THEN errors' = errors /\ extracted' = extracted
       ELSE errors' = errors /\ extracted' = extracted + 1
    /\ events' = Emit(evs, FileDoneEv(i, IF res = "ok" THEN "none" ELSE res))
    /\ UNCHANGED <<pool_errs, ret, pc>>

\* Parallel arm with continue_on_error: record or count, then FileDone.
DoneContinue(i, res, evs) ==
    /\ IF res # "ok"
       THEN errors' = Append(errors, ErrorTuple(i, res)) /\ extracted' = extracted
       ELSE errors' = errors /\ extracted' = extracted + 1
    /\ events' = Emit(evs, FileDoneEv(i, IF res = "ok" THEN "none" ELSE res))
    /\ UNCHANGED <<pool_errs, ret, pc>>

\* What the closure does with the result of extract_one, by arm of
\* `match (self.mode, self.continue_on_error)`.
Done(i, res, evs) ==
    /\ st' = [st EXCEPT ![i] = "done"]
    /\ CASE mode = "Sequential" -> DoneSequential(i, res, evs)
         [] mode = "Parallel" /\ ~continue_on_error -> DoneFailFast(i, res, evs)
         [] OTHER -> DoneContinue(i, res, evs)

NotDone(i, s) ==
    /\ st' = [st EXCEPT ![i] = s]
    /\ UNCHANGED <<extracted, errors, events, ret, pc, pool_errs>>

\* ------------------------------------------------------------ extract_one
OutPath(i) == tasks[i].rel

\* An open of the output file that truncates whatever overwrite says.
OpenOutputTruncates(dir, i, p) ==
    IF dir[p].exists
    THEN [ok |-> TRUE,
          fs |-> [dir EXCEPT ![p] = [@ EXCEPT !.by = i, !.part = "empty"]],
          handle |-> HandleOf(dir[p])]
    ELSE [ok |-> TRUE,
          fs |-> [dir EXCEPT ![p] = NewFile(i, p)],
          handle |-> HandleOf(NewFile(i, p))]

\* OpenOptions::open for the output file: create_new fails on an existing
\* path; create + truncate empties the file that is there.
OpenOutput(dir, i, p) ==
    IF dir[p].exists
    THEN IF overwrite
         THEN [ok |-> TRUE,
               fs |-> [dir EXCEPT ![p] = [@ EXCEPT !.by = i, !.part = "empty"]],
               handle |-> HandleOf(dir[p])]
         ELSE [ok |-> FALSE, fs |-> dir, handle |-> NoHandle]
    ELSE [ok |-> TRUE,
          fs |-> [dir EXCEPT ![p] = NewFile(i, p)],
          handle |-> HandleOf(NewFile(i, p))]

\* The head of an item's closure: the cancel check at the entry boundary, on
\* which a sequential run leaves its loop (work returns Ok) and a parallel
\* run's closure returns for this item alone; else FileStart and extract_one
\* up to the open of the output file, and, when the open fails, the closure's
\* handling of the error.
Begin(i) ==
    /\ MayBegin(i)
    /\ IF should_abort
       THEN /\ IF mode = "Sequential"
               THEN pc' = "finish" /\ st' = st
               ELSE pc' = pc /\ st' = [st EXCEPT ![i] = "aborted"]
            /\ UNCHANGED <<extracted, errors, events, ret, handle, pool_errs, fs>>
       ELSE LET o == OpenOutput(fs, i, OutPath(i))
                started == Emit(events, FileStartEv(i))
            IN  /\ fs' = o.fs
                /\ handle' = [handle EXCEPT ![i] = o.handle]
                /\ IF o.ok
                   THEN /\ st' = [st EXCEPT ![i] = "opened"]
                        /\ events' = started
                        /\ UNCHANGED <<extracted, errors, ret, pc, pool_errs>>
                   ELSE Done(i, "AlreadyExists", started)
    /\ UNCHANGED <<config, cancel_flag, walked, tasks, skipped, filter_calls>>

\* A write through an open file: it reaches the file wherever it is linked
\* now, and is lost when the file has been replaced.
WriteThrough(dir, h, i, part) ==
    [p \in DOMAIN dir |->
        IF dir[p].exists /\ HandleOf(dir[p]) = h
        THEN [dir[p] EXCEPT !.by = i, !.part = part]
        ELSE dir[p]]

\* Whether the rename to the sniffed extension applies.
WantsRename(i) == OutPath(i).ext = "" /\ tasks[i].entry.data = "ok_magic"

\* open_entry, io::copy and flush; unless a rename follows, the closure's
\* handling of the result.
Copy(i) ==
    /\ pc = "work"
    /\ st[i] = "opened"
    /\ LET d == tasks[i].entry.data IN
         /\ fs' = IF d = "open_err"
                  THEN fs
                  ELSE WriteThrough(fs, handle[i], i,
                                    IF d = "read_err" THEN "partial" ELSE "full")
         /\ CASE d = "open_err" -> Done(i, "OpenEntry", events)
              [] d = "read_err" -> Done(i, "Read", events)
              [] WantsRename(i) -> NotDone(i, "copied")
              [] OTHER -> Done(i, "ok", events)
    /\ handle' = handle
    /\ UNCHANGED <<config, cancel_flag, walked, tasks, skipped, filter_calls>>

\* std::fs::rename(from, to), its error ignored: it replaces the file at `to`.
RenameFile(dir, from, to) ==
    IF dir[from].exists
    THEN [dir EXCEPT ![to] = dir[from], ![from] = Absent]
    ELSE dir

\* The rename of an extension-less output to the sniffed extension, and the
\* closure's handling of Ok.
Rename(i) ==
    /\ pc = "work"
    /\ st[i] = "copied"
    /\ fs' = RenameFile(fs, OutPath(i), WithExtension(OutPath(i), "tex"))
    /\ handle' = [handle EXCEPT ![i] = NoHandle]
    /\ Done(i, "ok", events)
    /\ UNCHANGED <<config, cancel_flag, walked, tasks, skipped, filter_calls>>

\* ------------------------------------------------------ the end of the run
\* The sequential loop runs out of items: work returns Ok.
LoopEnd ==
    /\ pc = "work"
    /\ mode = "Sequential"
    /\ \A i \in Tasks : st[i] = "done"
    /\ pc' = "finish"
    /\ UNCHANGED <<config, cancel_flag, walked, tasks, skipped, filter_calls, extracted,
                   errors, events, ret, st, handle, pool_errs, fs>>

\* A parallel iterator that returns its error as soon as an item has failed,
\* without waiting for the items in flight.
JoinOnFirstError ==
    /\ pc = "work"
    /\ mode = "Parallel"
    /\ Ended = Tasks \/ pool_errs # {}
    /\ IF pool_errs = {}
       THEN pc' = "finish" /\ ret' = ret
       ELSE /\ pc' = "returned"
            /\ \E e \in pool_errs :
                 ret' = [kind |-> "err", task |-> e.task, error |-> e.error]
    /\ UNCHANGED <<config, cancel_flag, walked, tasks, skipped, filter_calls, extracted,
                   errors, events, st, handle, pool_errs, fs>>

\* The parallel iterator returns once no item is pending or running: with an
\* error of try_for_each (one of those its items returned), which `?` makes
\* the result of run(), or with Ok.
Join ==
    /\ pc = "work"
    /\ mode = "Parallel"
    /\ Ended = Tasks
    /\ IF pool_errs = {}
       THEN pc' = "finish" /\ ret' = ret
       ELSE /\ pc' = "returned"
            /\ \E e \in pool_errs :
                 ret' = [kind |-> "err", task |-> e.task, error |-> e.error]
    /\ UNCHANGED <<config, cancel_flag, walked, tasks, skipped, filter_calls, extracted,
                   errors, events, st, handle, pool_errs, fs>>

\* After work returned Ok: the counts, Finish, and the report.
Finish ==
    /\ pc = "finish"
    /\ events' = Emit(events, FinishEv(extracted, skipped, Len(errors)))
    /\ ret' = [kind |-> "ok", report |-> ExtractReport(extracted, skipped, errors)]
    /\ pc' = "returned"
    /\ UNCHANGED <<config, cancel_flag, walked, tasks, skipped, filter_calls, extracted,
                   errors, st, handle, pool_errs, fs>>

Next ==
    \/ PlanEntry
    \/ Dispatch
    \/ PoolBuildFails
    \/ Cancel
    \/ \E i \in Tasks : Begin(i)
    \/ \E i \in Tasks : PoolDrop(i)
    \/ \E i \in Tasks : Copy(i)
    \/ \E i \in Tasks : Rename(i)
    \/ LoopEnd
    \/ Join
    \/ Finish

Spec == Init /\ [][Next]_vars

\* ======================================================= the entry readers
Min(a, b) == IF a < b THEN a ELSE b

\* The byte at an offset of the PAK file: the file of the model holds a
\* different byte at each offset.
ByteAt(k) == k

\* The bytes at the offsets from .. to-1 (mmap[from..to]).
Slice(from, to) == [k \in 1..(to - from) |-> ByteAt(from + k - 1)]

\* The chunk table of the model: raw chunks of block_size bytes, laid out one
\* after the other from the start of the file.
ChunkTable ==
    [block_size |-> BlockSize,
     chunks |-> [c \in 1..(FileLen \div BlockSize) |->
                    [start |-> (c - 1) * BlockSize, is_raw |-> TRUE,
                     comp_len |-> 0]]]

\* ChunkDesc::compressed_len: block_size of a raw chunk, meta >> 10 else.
compressed_len(desc, block_size) ==
    IF desc.is_raw THEN block_size ELSE desc.comp_len

\* 2^n, and a u64 sum as the machine keeps it.
RECURSIVE Pow2(_)
Pow2(n) == IF n = 0 THEN 1 ELSE 2 * Pow2(n - 1)
WrapU64(x) == x % Pow2(U64Bits)

\* A ChunkedRead::new without the check of block_size: it divides by it.
ChunkedRead_new_divides(table, start_chunk, total_len, overflow_checks) ==
    IF start_chunk >= Len(table.chunks) THEN "InvalidChunkIndex"
    ELSE IF total_len > 0
    THEN IF table.block_size = 0 THEN "panic"
         ELSE LET sum == total_len + table.block_size - 1
                  needed == WrapU64(sum) \div table.block_size
                  end == start_chunk + needed
              IN  IF sum >= Pow2(U64Bits) /\ overflow_checks THEN "panic"
                  ELSE IF end > Len(table.chunks) THEN "InvalidChunkIndex"
                  ELSE "ok"
    ELSE "ok"

\* ChunkedRead::new on a table, a start chunk and a length: "ok", the error
\* it returns, or "panic": total_len + block_size - 1 is a u64 sum, which
\* panics on overflow in a build with overflow checks and wraps in one
\* without.
ChunkedRead_new(table, start_chunk, total_len, overflow_checks) ==
    IF table.block_size = 0 THEN "InvalidChunkTable"
    ELSE IF start_chunk >= Len(table.chunks) THEN "InvalidChunkIndex"
    ELSE IF total_len > 0
    THEN LET sum == total_len + table.block_size - 1
             needed == WrapU64(sum) \div table.block_size
             end == start_chunk + needed
         IN  IF sum >= Pow2(U64Bits) /\ overflow_checks THEN "panic"
             ELSE IF end > Len(table.chunks) THEN "InvalidChunkIndex"
             ELSE "ok"
    ELSE "ok"

\* ChunkedRead::new: whether it accepts the start chunk and the length, on
\* the chunk table of the PAK file (whose lengths are far from overflow).
ChunkedNewOk(start_chunk, total_len) ==
    ChunkedRead_new(ChunkTable, start_chunk, total_len, FALSE) = "ok"

\* What open_entry hands out for an entry: a ChunkedRead, a MmapRangeReader
\* once the range check has passed, or a Take over a clone of the file; or
\* its error.
NewReader(e) ==
    CASE e.kind = "ChunkIndex" ->
           IF ChunkedNewOk(e.offset, e.size)
           THEN [Closed EXCEPT !.state = "open", !.entry = e,
                               !.next_chunk_index = e.offset,
                               !.remaining = e.size]
           ELSE [Closed EXCEPT !.state = "failed", !.entry = e]
      [] e.kind = "FileOffset" /\ backend = "Mmap" ->
           IF e.offset + e.size > FileLen
           THEN [Closed EXCEPT !.state = "failed", !.entry = e]
           ELSE [Closed EXCEPT !.state = "open", !.entry = e,
                               !.pos = e.offset, !.end = e.offset + e.size]
      [] OTHER ->
           [Closed EXCEPT !.state = "open", !.entry = e, !.limit = e.size]

\* PakFile::open_entry. On the file backend the reader of a byte-offset entry
\* seeks its clone of the file, which moves the cursor the clones share.
OpenEntry(r, e) ==
    /\ readers[r].state = "closed"
    /\ readers' = [readers EXCEPT ![r] = NewReader(e)]
    /\ file_pos' = IF backend = "File" /\ e.kind = "FileOffset"
                   THEN e.offset
                   ELSE file_pos
    /\ UNCHANGED <<backend, ex_vars, lib_vars, fn_vars>>

\* MmapRangeReader::read with a buffer of n bytes.
ReadMmapRange(r, n) ==
    /\ readers[r].state = "open"
    /\ readers[r].entry.kind = "FileOffset"
    /\ backend = "Mmap"
    /\ LET rd == readers[r]
           remaining == rd.end - rd.pos
           to_read == Min(remaining, n)
       IN  readers' =
             [readers EXCEPT ![r] =
                IF remaining <= 0
                THEN [rd EXCEPT !.state = "eof"]
                ELSE [rd EXCEPT !.pos = rd.pos + to_read,
                                !.out = rd.out \o Slice(rd.pos, rd.pos + to_read)]]
    /\ UNCHANGED <<backend, file_pos, ex_vars, lib_vars, fn_vars>>

\* Take<File>::read with a buffer of n bytes: File::read at the cursor of the
\* open file, which it advances.
ReadTake(r, n) ==
    /\ readers[r].state = "open"
    /\ readers[r].entry.kind = "FileOffset"
    /\ backend = "File"
    /\ LET rd == readers[r]
           max == Min(n, rd.limit)
           got == IF file_pos >= FileLen THEN 0 ELSE Min(max, FileLen - file_pos)
       IN  /\ readers' =
                [readers EXCEPT ![r] =
                   IF got = 0
                   THEN [rd EXCEPT !.state = "eof"]
                   ELSE [rd EXCEPT !.limit = rd.limit - got,
                                   !.out = rd.out \o Slice(file_pos, file_pos + got)]]
           /\ file_pos' = file_pos + got
    /\ UNCHANGED <<backend, ex_vars, lib_vars, fn_vars>>

\* CopyOut without the cap of remaining on what it copies.
CopyOutWholeBlock(rd, n) ==
    IF rd.buf = <<>>
    THEN [rd EXCEPT !.state = "eof"]
    ELSE LET available == Len(rd.buf) - rd.buf_pos
             want == Min(n, available)
         IN  [rd EXCEPT !.state = "open",
                        !.buf_pos = rd.buf_pos + want,
                        !.remaining = IF rd.remaining > want
                                      THEN rd.remaining - want ELSE 0,
                        !.out = rd.out \o SubSeq(rd.buf, rd.buf_pos + 1,
                                                 rd.buf_pos + want)]

\* The tail of ChunkedRead::read with a buffer of n bytes, on the reader as
\* refill (if any) left it.
CopyOut(rd, n) ==
    IF rd.buf = <<>>
    THEN [rd EXCEPT !.state = "eof"]
    ELSE LET available == Len(rd.buf) - rd.buf_pos
             want == Min(Min(n, available), rd.remaining)
         IN  [rd EXCEPT !.state = "open",
                        !.buf_pos = rd.buf_pos + want,
                        !.remaining = rd.remaining - want,
                        !.out = rd.out \o SubSeq(rd.buf, rd.buf_pos + 1,
                                                 rd.buf_pos + want)]

\* A read that calls refill whether or not the block is used up.
NeedsRefillEveryRead(rd) == rd.remaining # 0

\* ChunkedRead::read finds the block used up and calls refill.
NeedsRefill(rd) == rd.remaining # 0 /\ rd.buf_pos >= Len(rd.buf)

\* ChunkedRead::refill on the mmap source: the next chunk's bytes become the
\* block, or the chunk is out of the table or of the file.
RefillMmap(rd) ==
    IF rd.next_chunk_index >= Len(ChunkTable.chunks)
    THEN [rd EXCEPT !.state = "failed"]
    ELSE LET desc == ChunkTable.chunks[rd.next_chunk_index + 1]
             end == desc.start + compressed_len(desc, ChunkTable.block_size)
         IN  IF end > FileLen
             THEN [rd EXCEPT !.state = "failed",
                             !.next_chunk_index = rd.next_chunk_index + 1]
             ELSE [rd EXCEPT !.next_chunk_index = rd.next_chunk_index + 1,
                             !.buf = Slice(desc.start, end),
                             !.buf_pos = 0]

\* ChunkedRead::read with a buffer of n bytes, but for the refill of the file
\* source.
ReadChunked(r, n) ==
    /\ readers[r].state = "open"
    /\ readers[r].entry.kind = "ChunkIndex"
    /\ LET rd == readers[r] IN
         /\ NeedsRefill(rd) => backend = "Mmap"
         /\ readers' =
              [readers EXCEPT ![r] =
                 IF rd.remaining = 0
                 THEN [rd EXCEPT !.state = "eof"]
                 ELSE IF NeedsRefill(rd)
                      THEN LET filled == RefillMmap(rd)
                           IN  IF filled.state = "failed"
                               THEN filled
                               ELSE CopyOut(filled, n)
                      ELSE CopyOut(rd, n)]
    /\ UNCHANGED <<backend, file_pos, ex_vars, lib_vars, fn_vars>>

\* ChunkedRead::refill on the file source, up to file.seek: the cursor of the
\* open file moves to the start of the next chunk.
RefillSeek(r) ==
    /\ readers[r].state = "open"
    /\ readers[r].entry.kind = "ChunkIndex"
    /\ backend = "File"
    /\ NeedsRefill(readers[r])
    /\ LET rd == readers[r] IN
         IF rd.next_chunk_index >= Len(ChunkTable.chunks)
         THEN /\ readers' = [readers EXCEPT ![r] = [rd EXCEPT !.state = "failed"]]
              /\ file_pos' = file_pos
         ELSE /\ readers' =
                   [readers EXCEPT ![r] =
                      [rd EXCEPT !.state = "seeked",
                                 !.next_chunk_index = rd.next_chunk_index + 1]]
              /\ file_pos' = ChunkTable.chunks[rd.next_chunk_index + 1].start
    /\ UNCHANGED <<backend, ex_vars, lib_vars, fn_vars>>

\* ChunkedRead::refill on the file source, from file.read_exact on: the bytes
\* at the cursor of the open file become the block, or the file ends before
\* the chunk does; then the tail of the read that called refill.
RefillRead(r, n) ==
    /\ readers[r].state = "seeked"
    /\ LET rd == readers[r]
           comp_len == compressed_len(ChunkTable.chunks[rd.next_chunk_index],
                                      ChunkTable.block_size)
       IN  IF file_pos + comp_len > FileLen
           THEN /\ readers' = [readers EXCEPT ![r] = [rd EXCEPT !.state = "failed"]]
                /\ file_pos' = IF file_pos > FileLen THEN file_pos ELSE FileLen
           ELSE /\ readers' =
                     [readers EXCEPT ![r] =
                        CopyOut([rd EXCEPT !.buf = Slice(file_pos, file_pos + comp_len),
                                           !.buf_pos = 0], n)]
                /\ file_pos' = file_pos + comp_len
    /\ UNCHANGED <<backend, ex_vars, lib_vars, fn_vars>>

\* No extraction runs: an extractor over an empty archive, at the head of
\* run().
NoExtraction ==
    /\ mode = "Sequential"
    /\ continue_on_error = FALSE
    /\ overwrite = FALSE
    /\ skip_unknown = FALSE
    /\ file_name_table = [some |-> FALSE, known |-> {}]
    /\ filter = [some |-> FALSE, accepts |-> {}]
    /\ cancel_flag = FALSE
    /\ archive = <<>>
    /\ walked = 0
    /\ pc = "plan"
    /\ tasks = <<>>
    /\ skipped = 0
    /\ filter_calls = <<>>
    /\ extracted = 0
    /\ errors = <<>>
    /\ events = <<>>
    /\ ret = [kind |-> "none"]
    /\ st = <<>>
    /\ handle = <<>>
    /\ pool_errs = {}
    /\ fs = [p \in Paths |-> Absent]

\* No entry reader is handed out.
NoReaders ==
    /\ backend = "Mmap"
    /\ file_pos = 0
    /\ readers = [r \in 1..NumReaders |-> Closed]

\* A PakFile opened on either backend, the cursor of its file where reading
\* the header and the tables left it, and no reader handed out yet; no
\* extraction runs.
InitReaders ==
    /\ backend \in {"Mmap", "File"}
    /\ file_pos \in 0..FileLen
    /\ readers = [r \in 1..NumReaders |-> Closed]
    /\ NoExtraction
    /\ NoFunctions
    /\ chunked = Unused
    /\ sniffer = Unused
    /\ parser = Unused
    /\ writer = Unused

NextReaders ==
    \/ \E r \in 1..NumReaders, e \in ReaderEntries : OpenEntry(r, e)
    \/ \E r \in 1..NumReaders, n \in 1..MaxRead : ReadMmapRange(r, n)
    \/ \E r \in 1..NumReaders, n \in 1..MaxRead : ReadTake(r, n)
    \/ \E r \in 1..NumReaders, n \in 1..MaxRead : ReadChunked(r, n)
    \/ \E r \in 1..NumReaders : RefillSeek(r)
    \/ \E r \in 1..NumReaders, n \in 1..MaxRead : RefillRead(r, n)

SpecReaders == InitReaders /\ [][NextReaders]_vars


\* ==================================================== ChunkedRead, alone
\* A zstd frame of the model is one byte that names the chunk it was made
\* from and the length of what it holds; CorruptByte is no frame.
Frame(id, len) == 100 + 10 * id + len
IsFrame(b) == b >= 100
CorruptByte == 99

\* zstd::stream::decode_all: the content of the frame, or an error.
decode_all(comp_bytes) ==
    IF Len(comp_bytes) = 1 /\ IsFrame(comp_bytes[1])
    THEN [ok |-> TRUE,
          bytes |-> [k \in 1..(comp_bytes[1] % 10) |->
                        200 + 10 * ((comp_bytes[1] - 100) \div 10) + k]]
    ELSE [ok |-> FALSE, bytes |-> <<>>]

\* The chunks a PAK file may hold: raw, a zstd frame of one block, a zstd
\* frame of a byte more than a block, bytes that are no zstd frame.
ChunkKinds == {"raw", "zstd", "zstd_long", "zstd_bad"}

\* The data segment of a PAK file whose chunks are of these kinds, one after
\* the other: a raw chunk is block_size bytes, each different, a compressed
\* one is one byte.
RECURSIVE ChunkBytes(_, _)
ChunkBytes(kinds, block_size) ==
    IF kinds = <<>> THEN <<>>
    ELSE LET c == Len(kinds)
             front == ChunkBytes(SubSeq(kinds, 1, c - 1), block_size)
         IN  front \o
             CASE kinds[c] = "raw" -> [k \in 1..block_size |-> Len(front) + k]
               [] kinds[c] = "zstd" -> <<Frame(c, block_size)>>
               [] kinds[c] = "zstd_long" -> <<Frame(c, block_size + 1)>>
               [] OTHER -> <<CorruptByte>>

\* The chunk table of that file: per chunk its start, whether its meta says
\* raw, and the compressed length of its meta.
TableOf(kinds, block_size) ==
    [block_size |-> block_size,
     chunks |-> [c \in 1..Len(kinds) |->
                    [start |-> Len(ChunkBytes(SubSeq(kinds, 1, c - 1),
                                              block_size)),
                     is_raw |-> kinds[c] = "raw",
                     comp_len |-> 1]]]

\* The ChunkedRead of an entry: its table and source, the entry's start
\* chunk and length, the fields of the reader, what it has yielded (out),
\* how many chunks it has fetched from the source and which ones, in the
\* order of the fetches (decoded), and its last error.
NewChunked(kinds, block_size, cut, start_chunk, total_len, overflow_checks) ==
    [state |-> "new",
     table |-> TableOf(kinds, block_size),
     file |-> LET all == ChunkBytes(kinds, block_size)
              IN  SubSeq(all, 1, Len(all) - cut),
     start_chunk |-> start_chunk, total_len |-> total_len,
     overflow_checks |-> overflow_checks,
     next_chunk_index |-> 0, remaining |-> 0, buf |-> <<>>, buf_pos |-> 0,
     out |-> <<>>, fetched |-> 0, decoded |-> <<>>, err |-> "none"]

\* A PAK file with a chunk table, whole or cut a byte short, and an entry of
\* it, in a build with or without overflow checks.
InitChunked ==
    /\ \E kinds \in SeqsUpTo(ChunkKinds, MaxChunks),
          block_size \in 0..MaxBlockSize, cut \in 0..1,
          start_chunk \in 0..MaxChunks, total_len \in 0..(Pow2(U64Bits) - 1),
          overflow_checks \in BOOLEAN :
         /\ cut <= Len(ChunkBytes(kinds, block_size))
         /\ chunked = NewChunked(kinds, block_size, cut, start_chunk,
                                 total_len, overflow_checks)
    /\ sniffer = Unused
    /\ parser = Unused
    /\ writer = Unused
    /\ NoReaders
    /\ NoExtraction
    /\ NoFunctions

\* ChunkedRead::new for the entry.
ChunkedNew ==
    /\ chunked.state = "new"
    /\ LET res == ChunkedRead_new(chunked.table, chunked.start_chunk,
                                  chunked.total_len, chunked.overflow_checks)
       IN  chunked' =
             IF res = "ok"
             THEN [chunked EXCEPT !.state = "open",
                                  !.next_chunk_index = chunked.start_chunk,
                                  !.remaining = chunked.total_len]
             ELSE IF res = "panic"
                  THEN [chunked EXCEPT !.state = "panicked"]
                  ELSE [chunked EXCEPT !.state = "rejected", !.err = res]
    /\ UNCHANGED <<ex_vars, rd_vars, fn_vars, sniffer, parser, writer>>

\* ChunkedRead::refill with bytes remaining, on the mmap source.
ChunkedRead_refill(c) ==
    IF c.next_chunk_index >= Len(c.table.chunks)
    THEN [c EXCEPT !.state = "failed", !.err = "chunk index out of range"]
    ELSE LET desc == c.table.chunks[c.next_chunk_index + 1]
             end == desc.start + compressed_len(desc, c.table.block_size)
             nxt == [c EXCEPT !.next_chunk_index = c.next_chunk_index + 1]
         IN  IF end > Len(c.file)
             THEN [nxt EXCEPT !.state = "failed",
                              !.err = "chunk range out of bounds"]
             ELSE LET comp_bytes == SubSeq(c.file, desc.start + 1, end)
                      got == [nxt EXCEPT !.fetched = c.fetched + 1,
                                         !.decoded = Append(c.decoded,
                                                       c.next_chunk_index)]
                      dec == IF desc.is_raw
                             THEN [ok |-> TRUE, bytes |-> comp_bytes]
                             ELSE decode_all(comp_bytes)
                  IN  IF ~dec.ok
                      THEN [got EXCEPT !.state = "failed",
                                       !.err = "zstd decode failed"]
                      ELSE IF Len(dec.bytes) # c.table.block_size
                      THEN [got EXCEPT !.state = "failed",
                                       !.err = "unexpected chunk output size"]
                      ELSE [got EXCEPT !.buf = dec.bytes, !.buf_pos = 0]

\* ChunkedRead::read with a buffer of n bytes.
ChunkedRead_read(c, n) ==
    IF c.remaining = 0 THEN [c EXCEPT !.state = "eof"]
    ELSE LET filled == IF NeedsRefill(c) THEN ChunkedRead_refill(c) ELSE c
         IN  IF filled.state = "failed" THEN filled ELSE CopyOut(filled, n)

ChunkedRead(n) ==
    /\ chunked.state = "open"
    /\ chunked' = ChunkedRead_read(chunked, n)
    /\ UNCHANGED <<ex_vars, rd_vars, fn_vars, sniffer, parser, writer>>

NextChunked ==
    \/ ChunkedNew
    \/ \E n \in 1..MaxRead : ChunkedRead(n)

SpecChunked == InitChunked /\ [][NextChunked]_vars

\* ================================================ ExtensionReader, alone
\* The number of magic bytes ExtensionReader keeps.
MagicLen == 8

\* The compression kinds of an entry (CompressedReader's variants).
CompressionKinds == {"store", "deflate", "zstd"}

\* The decoded payload of an entry of len bytes, each different: what the
\* CompressedReader under the ExtensionReader yields, whatever its kind.
Payload(len) == [k \in 1..len |-> k]

\* ExtensionReader::new over the CompressedReader of an entry: the fields of
\* the reader, how far the reader under it has been read (pos), what the
\* caller has been handed (out) and whether the number of its read calls is
\* odd.
NewSniffer(kind, len) ==
    [state |-> "open", kind |-> kind, stream |-> Payload(len), pos |-> 0,
     magic_bytes |-> [k \in 1..MagicLen |-> 0], magic_read_length |-> 0,
     out |-> <<>>, odd |-> FALSE]

\* What the caller has been handed after a read that returned more: the
\* model keeps it up to the first bytes beyond the length of the stream.
Handed(sn, more) ==
    IF Len(sn.out) > Len(sn.stream) THEN sn.out ELSE sn.out \o more

InitSniff ==
    /\ \E kind \in CompressionKinds, len \in 0..MaxStream :
         sniffer = NewSniffer(kind, len)
    /\ chunked = Unused
    /\ parser = Unused
    /\ writer = Unused
    /\ NoReaders
    /\ NoExtraction
    /\ NoFunctions

\* What a read of the reader under the sniffer may return for a buffer of
\* cap bytes with left bytes to come: 0 at the end or for an empty buffer,
\* else any number of bytes from 1 up to what fits (Read::read).
InnerReads(cap, left) ==
    IF cap = 0 \/ left = 0 THEN {0} ELSE 1..Min(cap, left)

\* The caller reads until a read returns 0 (or panics).
StillReading == sniffer.state = "open"

\* ExtensionReader::read with a buffer of n bytes while fewer than 8 magic
\* bytes are read; the reader under it returns k bytes for the magic and k2
\* more for the rest of the buffer. The slice
\* magic_bytes[magic_read_length..8 - magic_read_length] panics when its
\* start is past its end.
SniffMagic(n, k, k2) ==
    /\ StillReading
    /\ sniffer.magic_read_length < MagicLen
    /\ LET m == sniffer.magic_read_length
           bytes_to_read == MagicLen - m
           left == Len(sniffer.stream) - sniffer.pos
       IN  IF m > bytes_to_read
           THEN /\ k = 0 /\ k2 = 0
                /\ sniffer' = [sniffer EXCEPT !.state = "panicked"]
           ELSE /\ k \in InnerReads(bytes_to_read - m, left)
                /\ LET magic == [i \in 1..MagicLen |->
                                   IF i > m /\ i <= m + k
                                   THEN sniffer.stream[sniffer.pos + (i - m)]
                                   ELSE sniffer.magic_bytes[i]]
                       bytes_to_copy == Min(m + k, n)
                   IN  IF bytes_to_copy = MagicLen
                       THEN /\ k2 \in InnerReads(n - bytes_to_copy, left - k)
                            /\ sniffer' =
                                 [sniffer EXCEPT
                                    !.magic_bytes = magic,
                                    !.magic_read_length = m + k,
                                    !.pos = sniffer.pos + k + k2,
                                    !.odd = ~sniffer.odd,
                                    !.out = Handed(sniffer,
                                      SubSeq(magic, 1, bytes_to_copy)
                                      \o SubSeq(sniffer.stream,
                                                sniffer.pos + k + 1,
                                                sniffer.pos + k + k2))]
                       ELSE /\ k2 = 0
                            /\ sniffer' =
                                 [sniffer EXCEPT
                                    !.state = IF bytes_to_copy = 0
                                              THEN "eof" ELSE "open",
                                    !.magic_bytes = magic,
                                    !.magic_read_length = m + k,
                                    !.pos = sniffer.pos + k,
                                    !.odd = ~sniffer.odd,
                                    !.out = Handed(sniffer,
                                      SubSeq(magic, 1, bytes_to_copy))]
    /\ UNCHANGED <<ex_vars, rd_vars, fn_vars, chunked, parser, writer>>

\* ExtensionReader::read with a buffer of n bytes once the 8 magic bytes are
\* read: the read of the reader under it, which returns k bytes.
SniffPass(n, k) ==
    /\ StillReading
    /\ sniffer.magic_read_length >= MagicLen
    /\ k \in InnerReads(n, Len(sniffer.stream) - sniffer.pos)
    /\ sniffer' =
         [sniffer EXCEPT
            !.state = IF k = 0 THEN "eof" ELSE "open",
            !.pos = sniffer.pos + k,
            !.odd = ~sniffer.odd,
            !.out = Handed(sniffer,
              SubSeq(sniffer.stream, sniffer.pos + 1, sniffer.pos + k))]
    /\ UNCHANGED <<ex_vars, rd_vars, fn_vars, chunked, parser, writer>>

NextSniff ==
    \/ \E n \in 1..MaxBuf, k, k2 \in 0..MaxBuf : SniffMagic(n, k, k2)
    \/ \E n \in 1..MaxBuf, k \in 0..MaxBuf : SniffPass(n, k)

SpecSniff == InitSniff /\ [][NextSniff]_vars

\* The caller is a loop that reads until a read returns 0 or fails
\* (io::copy): as long as the reader is open another read is made.
SpecSniffCopy == SpecSniff /\ WF_vars(NextSniff)

\* =================================================== read_archive, alone
\* The sizes of the structures of a PAK file, in bytes.
HeaderSize == 16
EntryV1Size == 24
EntryV2Size == 48
ExtraU32Size == 4
RawKeySize == 128

\* The bits of FeatureFlags the model tells apart: the supported ones and
\* one that is not.
ENTRY_ENCRYPTION == 3
EXTRA_U32 == 4
UNK_1 == 5
BIT00 == 0
FeatureBits == {BIT00, ENTRY_ENCRYPTION, EXTRA_U32, UNK_1}

\* FeatureFlags::check_supported.
check_supported(feature) == feature \subseteq {ENTRY_ENCRYPTION, EXTRA_U32, UNK_1}

\* PakHeader::entry_size (of a header try_from accepted).
entry_size(h) == IF h.major_version = 2 THEN EntryV1Size ELSE EntryV2Size

\* The least entry count whose table of entries of size bytes is 2^32
\* bytes or more.
OverflowCount(size) == (Pow2(U32Bits) \div size) + 1

\* The 16 bytes a file may start with, as the fields of spec::Header.
Headers ==
    [magic : {"KPKA", "AKPK"}, major_version : {2, 3, 4},
     minor_version : {0, 1, 2}, feature : SUBSET FeatureBits,
     total_files : (0..MaxTotalFiles)
                     \cup {OverflowCount(EntryV1Size),
                           OverflowCount(EntryV2Size)}]

\* What a complete file with this header holds: the header, the entry
\* table, the extra u32 and the key where the feature bits say so.
Demanded(h) ==
    HeaderSize + entry_size(h) * h.total_files
      + (IF EXTRA_U32 \in h.feature THEN ExtraU32Size ELSE 0)
      + (IF ENTRY_ENCRYPTION \in h.feature THEN RawKeySize ELSE 0)

\* The lengths of the files with this header the model reads: complete, or
\* ending at or a byte before the end of one of its parts (of the entry
\* table also as a u32 product gives its size); or complete with every
\* entry of the size of an EntryV2.
FileLens(h) ==
    LET x == IF EXTRA_U32 \in h.feature THEN ExtraU32Size ELSE 0
        k == IF ENTRY_ENCRYPTION \in h.feature THEN RawKeySize ELSE 0
        t == entry_size(h) * h.total_files
        tw == t % Pow2(U32Bits)
        ends == {HeaderSize, HeaderSize + t, HeaderSize + t + x,
                 HeaderSize + t + x + k, HeaderSize + tw,
                 HeaderSize + tw + x, HeaderSize + tw + x + k}
    IN  {0} \cup ends \cup {e - 1 : e \in ends}
          \cup {HeaderSize + EntryV2Size * h.total_files + x + k}

NoArchive == [some |-> FALSE, total_files |-> 0, entries |-> 0]

\* read_archive on a reader at the start of a file of file_len bytes: how
\* far it has read (pos), the header, the length of entry_table_bytes, and
\* what it returned.
InitHeader ==
    /\ \E h \in Headers, overflow_checks \in BOOLEAN :
         \E len \in FileLens(h) :
            parser = [state |-> "header", header |-> h, file_len |-> len,
                      overflow_checks |-> overflow_checks, pos |-> 0,
                      table_len |-> 0, err |-> [kind |-> "none"],
                      archive |-> NoArchive]
    /\ chunked = Unused
    /\ sniffer = Unused
    /\ writer = Unused
    /\ NoReaders
    /\ NoExtraction
    /\ NoFunctions

\* reader.read_exact of n bytes: the parser after it, or failed with the IO
\* error when the file ends before.
read_exact(ps, n, next_state) ==
    IF ps.file_len - ps.pos < n
    THEN [ps EXCEPT !.state = "failed", !.err = [kind |-> "IO"],
                    !.pos = ps.file_len]
    ELSE [ps EXCEPT !.state = next_state, !.pos = ps.pos + n]

\* spec::Header::from_reader.
HeaderFromReader ==
    /\ parser.state = "header"
    /\ parser' = read_exact(parser, HeaderSize, "try_from")
    /\ UNCHANGED <<ex_vars, rd_vars, fn_vars, chunked, sniffer, writer>>

\* PakHeader::try_from: the error it returns for a header, if any.
try_from(h) ==
    IF h.magic # "KPKA"
    THEN [kind |-> "InvalidMagic", expected |-> "KPKA", found |-> h.magic]
    ELSE IF h.major_version \notin {2, 4} \/ h.minor_version \notin {0, 1}
    THEN [kind |-> "UnsupportedVersion", major |-> h.major_version,
          minor |-> h.minor_version]
    ELSE IF ~check_supported(h.feature)
    THEN [kind |-> "UnsupportedFeature", feature |-> h.feature]
    ELSE [kind |-> "none"]

TryFromHeader ==
    /\ parser.state = "try_from"
    /\ parser' = IF try_from(parser.header).kind = "none"
                 THEN [parser EXCEPT !.state = "entry_table"]
                 ELSE [parser EXCEPT !.state = "failed",
                                     !.err = try_from(parser.header)]
    /\ UNCHANGED <<ex_vars, rd_vars, fn_vars, chunked, sniffer, writer>>

\* vec![0; (entry_size * total_files) as usize] and read_exact into it: the
\* u32 product panics on overflow in a build with overflow checks and wraps
\* in one without.
ReadEntryTable ==
    /\ parser.state = "entry_table"
    /\ LET product == entry_size(parser.header) * parser.header.total_files
           len == product % Pow2(U32Bits)
       IN  parser' =
             IF product >= Pow2(U32Bits) /\ parser.overflow_checks
             THEN [parser EXCEPT !.state = "panicked"]
             ELSE [read_exact(parser, len, "extra") EXCEPT !.table_len = len]
    /\ UNCHANGED <<ex_vars, rd_vars, fn_vars, chunked, sniffer, writer>>

\* The extra u32, read when the header has EXTRA_U32.
ReadExtraU32 ==
    /\ parser.state = "extra"
    /\ parser' = IF EXTRA_U32 \in parser.header.feature
                 THEN read_exact(parser, ExtraU32Size, "key")
                 ELSE [parser EXCEPT !.state = "key"]
    /\ UNCHANGED <<ex_vars, rd_vars, fn_vars, chunked, sniffer, writer>>

\* The 128-byte key, read (and the table decrypted) when the header has
\* ENTRY_ENCRYPTION.
ReadRawKey ==
    /\ parser.state = "key"
    /\ parser' = IF ENTRY_ENCRYPTION \in parser.header.feature
                 THEN read_exact(parser, RawKeySize, "entries")
                 ELSE [parser EXCEPT !.state = "entries"]
    /\ UNCHANGED <<ex_vars, rd_vars, fn_vars, chunked, sniffer, writer>>

\* read_entries over entry_table_bytes: total_files entries, of EntryV1 for
\* version 2.0 and of EntryV2 else; the first entry the table is too short
\* for is an IO error.
read_entries(ps) ==
    LET h == ps.header
        size == IF h.major_version = 2 /\ h.minor_version = 0
                THEN EntryV1Size ELSE EntryV2Size
    IN  IF h.total_files * size > ps.table_len
        THEN [ps EXCEPT !.state = "failed", !.err = [kind |-> "IO"]]
        ELSE [ps EXCEPT !.state = "done",
                        !.archive = [some |-> TRUE,
                                     total_files |-> h.total_files,
                                     entries |-> h.total_files]]

ReadEntries ==
    /\ parser.state = "entries"
    /\ parser' = read_entries(parser)
    /\ UNCHANGED <<ex_vars, rd_vars, fn_vars, chunked, sniffer, writer>>

NextHeader ==
    \/ HeaderFromReader
    \/ TryFromHeader
    \/ ReadEntryTable
    \/ ReadExtraU32
    \/ ReadRawKey
    \/ ReadEntries

SpecHeader == InitHeader /\ [][NextHeader]_vars

\* ====================================================== PakWriter, alone
\* A byte of the output: a zero, the k-th byte the caller wrote to file f,
\* the i-th byte of an encoded header or of an encoded entry (with the
\* fields the bytes encode).
ZeroCell == [t |-> "zero", i |-> 0, a |-> 0, b |-> 0, c |-> 0, d |-> 0]
DataCell(f, k) == [t |-> "data", i |-> 0, a |-> f, b |-> k, c |-> 0, d |-> 0]

\* PakHeader::into_bytes: the 16 bytes of a header (magic KPKA, feature 0).
HeaderBytes(h) ==
    [i \in 1..HeaderSize |->
        [t |-> "hdr", i |-> i, a |-> h.major_version, b |-> h.minor_version,
         c |-> h.total_files, d |-> 0]]

\* PakEntry::into_bytes_v2: the 48 bytes of an entry.
EntryBytes(e) ==
    [i \in 1..EntryV2Size |->
        [t |-> "ent", i |-> i, a |-> e.hash, b |-> e.offset,
         c |-> e.compressed_size, d |-> e.uncompressed_size]]

\* FileName::hash_lower_case / hash_upper_case of the n-th name the caller
\* uses: names differ, and so do their hashes.
NameHash(n) == 7 * n + 3

\* The sink (a Cursor over a Vec): its bytes by offset (those never written
\* below its length are zeros), its length and its position.
EmptySink == [bytes |-> <<>>, len |-> 0, pos |-> 0]
CellAt(sk, o) == IF o \in DOMAIN sk.bytes THEN sk.bytes[o] ELSE ZeroCell
seek(sk, p) == [sk EXCEPT !.pos = p]
write_all(sk, cells) ==
    IF cells = <<>> THEN sk
    ELSE LET n == Len(cells)
             at == sk.pos .. (sk.pos + n - 1)
         IN  [bytes |-> [o \in DOMAIN sk.bytes \cup at |->
                           IF o \in at THEN cells[o - sk.pos + 1]
                           ELSE sk.bytes[o]],
              len |-> IF sk.pos + n > sk.len THEN sk.pos + n ELSE sk.len,
              pos |-> sk.pos + n]
\* inner.read_exact of n bytes: whether the sink holds them, the bytes and
\* the sink after.
sink_read_exact(sk, n) ==
    [ok |-> n = 0 \/ sk.pos + n <= sk.len,
     data |-> [k \in 1..n |-> CellAt(sk, sk.pos + k - 1)],
     inner |-> [sk EXCEPT !.pos = sk.pos + n]]

\* PakWriter::calculate_header_size.
calculate_header_size(entry_count) == HeaderSize + entry_count * EntryV2Size

\* The versions PakOptions may ask for.
Versions == {<<4, 0>>, <<2, 0>>}

\* PakWriter::new_with_options before start_pak: the fields of the writer,
\* what the last call returned, and per file the caller started the number
\* of bytes its writes were told the writer took (written).
InitWriter ==
    /\ \E n \in 0..MaxAlloc, v \in Versions :
         writer = [state |-> "new",
                   inner |-> EmptySink,
                   files |-> <<>>,
                   pak_options |-> [major_version |-> v[1],
                                    minor_version |-> v[2],
                                    pre_allocate_entry_count |-> n],
                   writing_to_file |-> FALSE,
                   bytes_written |-> 0,
                   alloc_header_size |-> 0,
                   last |-> "none",
                   written |-> <<>>]
    /\ chunked = Unused
    /\ sniffer = Unused
    /\ parser = Unused
    /\ NoReaders
    /\ NoExtraction
    /\ NoFunctions

\* PakWriter::start_pak, in new_with_options.
StartPak ==
    /\ writer.state = "new"
    /\ writer' =
         IF writer.pak_options.major_version # 4
            \/ writer.pak_options.minor_version # 0
         THEN [writer EXCEPT !.state = "rejected",
                             !.last = "UnsupportedVersion"]
         ELSE [writer EXCEPT
                 !.state = "open",
                 !.last = "ok",
                 !.alloc_header_size = calculate_header_size(
                     writer.pak_options.pre_allocate_entry_count)]
    /\ UNCHANGED <<ex_vars, rd_vars, fn_vars, chunked, sniffer, parser>>

\* PakWriter::try_finish_file: the sizes of the last entry become the bytes
\* written since its start_file.
try_finish_file(w) ==
    IF ~w.writing_to_file THEN w
    ELSE [w EXCEPT
            !.files[Len(w.files)].uncompressed_size = w.bytes_written,
            !.files[Len(w.files)].compressed_size = w.bytes_written,
            !.bytes_written = 0,
            !.writing_to_file = FALSE]

\* PakWriter::get_next_file_offset.
get_next_file_offset(w) ==
    LET data_seg_offset ==
          IF w.files = <<>> THEN 0
          ELSE w.files[Len(w.files)].offset
                 + w.files[Len(w.files)].compressed_size
    IN  w.alloc_header_size + data_seg_offset

\* IndexMap::insert: the entry of a new name goes to the end, that of a
\* name the map holds takes the place of the entry that is there. (A name
\* is known by its hash.)
files_insert(files, entry) ==
    IF \E j \in 1..Len(files) : files[j].hash = entry.hash
    THEN [j \in 1..Len(files) |->
            IF files[j].hash = entry.hash THEN entry ELSE files[j]]
    ELSE Append(files, entry)

\* PakWriter::start_file with the n-th name; the entry records the call of
\* start_file that made it.
start_file(w0, n) ==
    LET w == try_finish_file(w0)
        entry == [hash |-> NameHash(n),
                  offset |-> get_next_file_offset(w),
                  compressed_size |-> 0, uncompressed_size |-> 0,
                  call |-> Len(w.written) + 1]
    IN  [w EXCEPT !.inner = seek(w.inner, entry.offset),
                  !.files = files_insert(w.files, entry),
                  !.writing_to_file = TRUE,
                  !.last = "ok",
                  !.written = Append(w.written, 0)]

\* PakWriter::start_file with a name not used before.
StartFile ==
    /\ writer.state = "open"
    /\ Len(writer.files) < MaxFiles
    /\ writer' = start_file(writer, Len(writer.files) + 1)
    /\ UNCHANGED <<ex_vars, rd_vars, fn_vars, chunked, sniffer, parser>>

\* PakWriter::start_file with a name used before.
StartFileAgain(n) ==
    /\ writer.state = "open"
    /\ Len(writer.written) < MaxFiles
    /\ n \in 1..Len(writer.files)
    /\ writer' = start_file(writer, n)
    /\ UNCHANGED <<ex_vars, rd_vars, fn_vars, chunked, sniffer, parser>>

\* PakWriterStats::update counting the whole buffer.
stats_update_whole_buffer(bytes_written, n, count) == bytes_written + n

\* PakWriterStats::update after inner.write took count bytes of a buffer of
\* n.
stats_update(bytes_written, n, count) == bytes_written + count

\* Write::write with a buffer of n bytes, of which the sink takes count: the
\* next bytes of the file being written.
Write(n, count) ==
    /\ writer.state = "open"
    /\ count \in 1..n
    /\ writer.bytes_written + n <= MaxBytes
    /\ writer' =
         IF ~writer.writing_to_file
         THEN [writer EXCEPT !.last = "No file has been started"]
         ELSE LET f == Len(writer.written)
                  buf == [k \in 1..count |->
                            DataCell(f, writer.bytes_written + k)]
              IN  [writer EXCEPT
                     !.inner = write_all(writer.inner, buf),
                     !.bytes_written =
                        stats_update(writer.bytes_written, n, count),
                     !.last = "ok",
                     !.written[f] = writer.written[f] + count]
    /\ UNCHANGED <<ex_vars, rd_vars, fn_vars, chunked, sniffer, parser>>

\* finish moving nothing.
move_entries_nowhere(sk, files, order, delta) ==
    [ok |-> TRUE, inner |-> sk, files |-> files]

\* The loops of finish that move the data of the entries, in the order
\* given, by delta bytes: read at the entry's offset, written at the new
\* one, the entry's offset updated. A read_exact that fails ends finish.
RECURSIVE move_entries(_, _, _, _)
move_entries(sk, files, order, delta) ==
    IF order = <<>> THEN [ok |-> TRUE, inner |-> sk, files |-> files]
    ELSE LET e == files[Head(order)]
             r == sink_read_exact(seek(sk, e.offset), e.compressed_size)
         IN  IF ~r.ok
             THEN [ok |-> FALSE, inner |-> r.inner, files |-> files]
             ELSE move_entries(
                    write_all(seek(r.inner, e.offset + delta), r.data),
                    [files EXCEPT ![Head(order)].offset = e.offset + delta],
                    Tail(order), delta)

\* The bytes of the entry table: the entries in order.
EntryTableBytes(files) ==
    [j \in 1..(EntryV2Size * Len(files)) |->
        EntryBytes(files[((j - 1) \div EntryV2Size) + 1])
          [((j - 1) % EntryV2Size) + 1]]

\* A drop that never panics.
drop_never_panics(w) == FALSE

\* impl Drop for PakWriter: whether drop panics.
drop_panics(w) == w.writing_to_file

\* PakWriter::finish, and the drop of the writer it consumed.
finish(w0) ==
    LET w == try_finish_file(w0)
        n == Len(w.files)
        header == [major_version |-> w.pak_options.major_version,
                   minor_version |-> w.pak_options.minor_version,
                   total_files |-> n]
        sk == write_all(seek(w.inner, 0), HeaderBytes(header))
        actual_header_size == calculate_header_size(n)
        moved ==
          IF actual_header_size < w.alloc_header_size
          THEN move_entries(sk, w.files, [i \in 1..n |-> i],
                            0 - (w.alloc_header_size - actual_header_size))
          ELSE IF actual_header_size = w.alloc_header_size
          THEN [ok |-> TRUE, inner |-> sk, files |-> w.files]
          ELSE move_entries(sk, w.files, [i \in 1..n |-> n + 1 - i],
                            actual_header_size - w.alloc_header_size)
        ended == IF ~moved.ok
                 THEN [w EXCEPT !.inner = moved.inner, !.last = "IO",
                                !.state = "failed"]
                 ELSE [w EXCEPT
                         !.inner = write_all(seek(moved.inner, HeaderSize),
                                             EntryTableBytes(moved.files)),
                         !.files = moved.files,
                         !.last = "ok",
                         !.state = "finished"]
    IN  IF drop_panics(ended) THEN [ended EXCEPT !.state = "panicked"]
        ELSE ended

FinishPak ==
    /\ writer.state = "open"
    /\ writer' = finish(writer)
    /\ UNCHANGED <<ex_vars, rd_vars, fn_vars, chunked, sniffer, parser>>

\* The writer goes out of scope without finish.
Drop ==
    /\ writer.state = "open"
    /\ writer' = [writer EXCEPT !.state = IF drop_panics(writer)
                                          THEN "panicked" ELSE "dropped",
                                !.last = "drop"]
    /\ UNCHANGED <<ex_vars, rd_vars, fn_vars, chunked, sniffer, parser>>

NextWriter ==
    \/ StartPak
    \/ StartFile
    \/ \E n \in 1..MaxBytes, count \in 1..MaxBytes : Write(n, count)
    \/ FinishPak
    \/ Drop

SpecWriter == InitWriter /\ [][NextWriter]_vars

\* The writer with callers that may pass a name to start_file again.
NextWriterNames ==
    \/ NextWriter
    \/ \E n \in 1..MaxFiles : StartFileAgain(n)

SpecWriterNames == InitWriter /\ [][NextWriterNames]_vars

\* ------------------------------------------ one entry's output path, alone
\* A string is the sequence of its characters; a path is a string (Unix).
HexDigits ==
    <<"0", "1", "2", "3", "4", "5", "6", "7",
      "8", "9", "A", "B", "C", "D", "E", "F">>

\* The digits of n in base 16, upper case, without leading zeros.
RECURSIVE UpperHex(_)
UpperHex(n) ==
    IF n < 16
    THEN <<HexDigits[n + 1]>>
    ELSE UpperHex(n \div 16) \o <<HexDigits[(n % 16) + 1]>>

\* Padding with zeros on the left, to at least `width` characters.
ZeroPad(s, width) ==
    IF Len(s) >= width
    THEN s
    ELSE [i \in 1..(width - Len(s)) |-> "0"] \o s

\* PakEntry::hash: (hash_name_upper << 32) | hash_name_lower. The u64 is
\* kept as its two u32 halves; its hexadecimal digits are those of the upper
\* half, if it is not zero, followed by the eight of the lower half.
HashDigits(e) ==
    IF e.hash_name_upper = 0
    THEN UpperHex(e.hash_name_lower)
    ELSE UpperHex(e.hash_name_upper) \o ZeroPad(UpperHex(e.hash_name_lower), 8)

\* The minimum width of {:08X}.
HashWidth == 8

\* format!("_Unknown/{:08X}", entry.hash())
UnknownRelPath(e) ==
    <<"_", "U", "n", "k", "n", "o", "w", "n", "/">>
        \o ZeroPad(HashDigits(e), HashWidth)

\* Path::is_absolute
is_absolute(p) == Len(p) > 0 /\ p[1] = "/"

\* PathBuf::join: an absolute path replaces the base.
join(base, path) ==
    IF is_absolute(path)
    THEN path
    ELSE IF base = <<>> \/ base[Len(base)] = "/"
         THEN base \o path
         ELSE base \o <<"/">> \o path

\* The pieces of a string between its separators.
RECURSIVE Split(_)
Split(s) ==
    IF \A i \in 1..Len(s) : s[i] # "/"
    THEN <<s>>
    ELSE LET k == CHOOSE i \in 1..Len(s) :
                      s[i] = "/" /\ \A j \in 1..(i - 1) : s[j] # "/"
         IN  <<SubSeq(s, 1, k - 1)>> \o Split(SubSeq(s, k + 1, Len(s)))

ParentDir == <<".", ".">>

\* Path::components: the names and the `..` of a path (repeated separators
\* and `.` are dropped).
components(p) == SelectSeq(Split(p), LAMBDA c : c # <<>> /\ c # <<".">>)

\* Path::file_name: the last component unless it is `..`; <<>> for None.
file_name(p) ==
    LET cs == components(p) IN
    IF cs = <<>> \/ cs[Len(cs)] = ParentDir THEN <<>> ELSE cs[Len(cs)]

\* The position of the dot that starts the extension of a file name (not its
\* first character); 0 when there is none.
ExtensionDot(n) ==
    IF \E i \in 2..Len(n) : n[i] = "."
    THEN CHOOSE i \in 2..Len(n) :
             n[i] = "." /\ \A j \in (i + 1)..Len(n) : n[j] # "."
    ELSE 0

\* out_path.extension().is_none()
extension_is_none(p) == ExtensionDot(file_name(p)) = 0

\* Path::with_extension, for a path that ends with its file name: the path
\* itself when it has no file name.
with_extension(p, ext) ==
    IF file_name(p) = <<>>
    THEN p
    ELSE LET n == file_name(p)
             d == ExtensionDot(n)
             cut == IF d = 0 THEN 0 ELSE Len(n) - d + 1
         IN  SubSeq(p, 1, Len(p) - cut) \o <<".">> \o ext

\* The working directory of the process: its components.
Cwd == << <<"w">> >>

\* The directory entry the operating system reaches from `at` along the
\* components: `..` is the parent, and the parent of the root is the root.
RECURSIVE Walk(_, _)
Walk(at, cs) ==
    IF cs = <<>>
    THEN at
    ELSE Walk(IF Head(cs) = ParentDir
              THEN SubSeq(at, 1, Len(at) - 1)
              ELSE Append(at, Head(cs)),
              Tail(cs))

\* Where a path passed to open or rename names a file: the components from
\* the root.
Location(p) == Walk(IF is_absolute(p) THEN <<>> ELSE Cwd, components(p))

\* The names of the filename table of the model: plain ones with and without
\* an extension, one with a `..` that stays below its first directory, two
\* with `..` that climb out of it, and an absolute one.
TableNames ==
    { <<"n", "/", "a", ".", "b">>,
      <<"n", "/", "a">>,
      <<"n", "/", ".", ".", "/", "a">>,
      <<".", ".", "/", "e">>,
      <<"n", "/", ".", ".", "/", ".", ".", "/", "e", ".", "b">>,
      <<"/", "e">> }

\* The halves of the hashes of the model: 0, 1, 0xA, 0x10, 0xABCDEF,
\* 0x10000000 and 0x7FFFFFFF.
HashHalves == {0, 1, 10, 16, 11259375, 268435456, 2147483647}

\* The output directories of the model: a relative and an absolute one.
OutputRoots == { <<"o">>, <<"/", "o">> }

\* The extension ExtensionReader::determine_extension returns for a known
\* magic.
SniffedExt == <<"t", "e", "x">>

\* One entry of an archive in a run with skip_unknown = false and no filter:
\* the entry's hash, the name the table has for it (if any), the output
\* directory, whether the payload starts with a known magic; then the
\* rel_path of the plan, and the paths extract_one opened for writing and
\* renamed to.
InitPaths ==
    /\ \E upper \in HashHalves, lower \in HashHalves,
          name \in {[some |-> FALSE, s |-> <<>>]}
                      \cup {[some |-> TRUE, s |-> n] : n \in TableNames},
          dir \in OutputRoots, magic \in BOOLEAN :
         resolver = [state |-> "entry",
                     entry |-> [hash_name_upper |-> upper,
                                hash_name_lower |-> lower],
                     name |-> name,
                     output_dir |-> dir,
                     magic |-> magic,
                     rel_path |-> <<>>,
                     opened |-> {},
                     renamed |-> {}]
    /\ hasher = Unused
    /\ loader = Unused
    /\ codec = Unused
    /\ table_reader = Unused
    /\ decryptor = Unused
    /\ chunked = Unused
    /\ sniffer = Unused
    /\ parser = Unused
    /\ writer = Unused
    /\ NoReaders
    /\ NoExtraction

\* The planning loop's path resolution for the entry: the table's name taken
\* as it is, or _Unknown/<hash>.
ResolvePath ==
    /\ resolver.state = "entry"
    /\ resolver' = [resolver EXCEPT
          !.state = "planned",
          !.rel_path = IF resolver.name.some
                       THEN resolver.name.s
                       ELSE UnknownRelPath(resolver.entry)]
    /\ UNCHANGED <<ex_vars, rd_vars, lib_vars, hasher, loader, codec,
                 pure_vars>>

\* The item's closure: out_path = output_dir.join(rel_path), and
\* extract_one, which opens out_path for writing, copies the payload and
\* renames an extension-less out_path to the sniffed extension.
ExtractOne ==
    /\ resolver.state = "planned"
    /\ LET out_path == join(resolver.output_dir, resolver.rel_path)
           new_path == with_extension(out_path, SniffedExt)
       IN  resolver' = [resolver EXCEPT
              !.state = "extracted",
              !.opened = {out_path},
              !.renamed = IF extension_is_none(out_path) /\ resolver.magic
                          THEN {new_path}
                          ELSE {}]
    /\ UNCHANGED <<ex_vars, rd_vars, lib_vars, hasher, loader, codec,
                 pure_vars>>

NextPaths ==
    \/ ResolvePath
    \/ ExtractOne

SpecPaths == InitPaths /\ [][NextPaths]_vars

\* ------------------------------- Utf16CaseReader and the hashes of a path
\* The UTF-16 code units of the model: '@', 'A', 'Z', '[', 'a', 'z', '{',
\* U+00C9 and U+00E9, U+0441 and U+0461 (whose low bytes are 'A' and 'a'):
\* letters, their neighbours, and pairs of non-ASCII units 32 apart.
Units == {64, 65, 90, 91, 97, 122, 123, 201, 233, 1089, 1121}

Utf16Strings == SeqsUpTo(Units, MaxUnits)

\* pending_high_byte: None.
NoByte == 0 - 1

\* u16::to_le_bytes
to_le_bytes(u) == <<u % 256, u \div 256>>

\* A conversion that looks at the low byte of the unit only.
convert_unit_by_low_byte(u, uppercase) ==
    IF uppercase
    THEN IF (u % 256) \in 97..122 THEN u - 32 ELSE u
    ELSE IF (u % 256) \in 65..90 THEN u + 32 ELSE u

\* converted_unit: the case conversion of ASCII letters.
convert_unit(u, uppercase) ==
    IF u <= 127
    THEN IF uppercase
         THEN IF u \in 97..122 THEN u - 32 ELSE u
         ELSE IF u \in 65..90 THEN u + 32 ELSE u
    ELSE u

\* Utf16CaseReader::new_uppercase / new_lowercase
Utf16CaseReader_new(data, uppercase) ==
    [data |-> data, position |-> 0, uppercase |-> uppercase,
     pending_high_byte |-> NoByte]

\* The while loop of read, with `bytes` in the buffer of n bytes: it stops
\* at the end of the data, steps back when the buffer is full, and keeps the
\* high byte for the next call when only the low byte fits.
RECURSIVE read_loop(_, _, _)
read_loop(rd, bytes, n) ==
    IF rd.position >= Len(rd.data)
    THEN [rd |-> rd, bytes |-> bytes]
    ELSE LET b == to_le_bytes(convert_unit(rd.data[rd.position + 1],
                                           rd.uppercase))
         IN  IF Len(bytes) >= n
             THEN [rd |-> rd, bytes |-> bytes]
             ELSE IF Len(bytes) + 1 >= n
                  THEN [rd |-> [rd EXCEPT !.position = @ + 1,
                                          !.pending_high_byte = b[2]],
                        bytes |-> Append(bytes, b[1])]
                  ELSE read_loop([rd EXCEPT !.position = @ + 1],
                                 bytes \o b, n)

\* A read that forgets the byte kept by the call before.
read_drops_pending(rd, n) ==
    read_loop([rd EXCEPT !.pending_high_byte = NoByte], <<>>, n)

\* <Utf16CaseReader as Read>::read into a buffer of n bytes: the reader
\* after the call and the bytes returned.
read(rd, n) ==
    IF rd.pending_high_byte # NoByte
    THEN IF n > 0
         THEN read_loop([rd EXCEPT !.pending_high_byte = NoByte],
                        <<rd.pending_high_byte>>, n)
         ELSE [rd |-> rd, bytes |-> <<>>]
    ELSE read_loop(rd, <<>>, n)

\* The buffer murmur3_32 reads into.
Murmur3Block == 4

\* The bytes a reader yields to reads into buffers of n > 0 bytes, until a
\* read returns 0.
RECURSIVE read_to_end(_, _)
read_to_end(rd, n) ==
    LET r == read(rd, n) IN
    IF r.bytes = <<>> THEN <<>> ELSE r.bytes \o read_to_end(r.rd, n)

\* murmur3_hash(reader): murmur3_32 with its seed, which digests the bytes
\* the reader yields. A hash is identified with the bytes digested (no
\* collisions).
murmur3_hash(rd) == read_to_end(rd, Murmur3Block)

hash_lower_case(data) == murmur3_hash(Utf16CaseReader_new(data, FALSE))
hash_upper_case(data) == murmur3_hash(Utf16CaseReader_new(data, TRUE))

\* Utf16HashExt::hash_mixed: (upper << 32) | lower, as its two halves.
hash_mixed(data) ==
    [upper |-> hash_upper_case(data), lower |-> hash_lower_case(data)]

\* The units 32 away from a unit, and the unit.
Similar(u) == {u, u + 32, u - 32} \cap Units

\* The strings of the length of s whose units are those of s or 32 away.
SimilarStrings(s) ==
    {t \in [1..Len(s) -> Units] : \A i \in 1..Len(s) : t[i] \in Similar(s[i])}

\* A string s and a reader over it that is read into buffers of any size
\* (out: the bytes returned so far; split: a read ended between the two
\* bytes of a unit); and the hashes of s and of a similar string s2.
InitUtf16 ==
    /\ \E s \in Utf16Strings, uppercase \in BOOLEAN :
         \E s2 \in SimilarStrings(s) :
            hasher = [state |-> "reading",
                      s |-> s,
                      s2 |-> s2,
                      rd |-> Utf16CaseReader_new(s, uppercase),
                      out |-> <<>>,
                      split |-> FALSE,
                      hashed |-> FALSE,
                      hash |-> hash_mixed(<<>>),
                      hash2 |-> hash_mixed(<<>>)]
    /\ resolver = Unused
    /\ loader = Unused
    /\ codec = Unused
    /\ table_reader = Unused
    /\ decryptor = Unused
    /\ chunked = Unused
    /\ sniffer = Unused
    /\ parser = Unused
    /\ writer = Unused
    /\ NoReaders
    /\ NoExtraction

\* A call of read with a buffer of n bytes; a read into a buffer that is not
\* empty that returns 0 is the end of the data.
Utf16Read(n) ==
    /\ hasher.state = "reading"
    /\ LET r == read(hasher.rd, n) IN
         hasher' = [hasher EXCEPT
            !.rd = r.rd,
            !.out = @ \o r.bytes,
            !.split = @ \/ r.rd.pending_high_byte # NoByte,
            !.state = IF n > 0 /\ r.bytes = <<>> THEN "eof" ELSE "reading"]
    /\ UNCHANGED <<ex_vars, rd_vars, lib_vars, resolver, loader, codec,
                 pure_vars>>

\* hash_mixed of the string and of the similar string.
HashMixed ==
    /\ hasher.state # "unused"
    /\ ~hasher.hashed
    /\ hasher' = [hasher EXCEPT !.hashed = TRUE,
                                !.hash = hash_mixed(hasher.s),
                                !.hash2 = hash_mixed(hasher.s2)]
    /\ UNCHANGED <<ex_vars, rd_vars, lib_vars, resolver, loader, codec,
                 pure_vars>>

NextUtf16 ==
    \/ \E n \in 0..MaxReadBuf : Utf16Read(n)
    \/ HashMixed

SpecUtf16 == InitUtf16 /\ [][NextUtf16]_vars

\* The streams of a string in one case.
\* A unit with the case of an ASCII letter changed.
AsciiLower(u) == IF u \in 65..90 THEN u + 32 ELSE u
AsciiUpper(u) == IF u \in 97..122 THEN u - 32 ELSE u

\* Two strings differ only in the case of ASCII letters.
OnlyAsciiCaseDiffers(s, t) ==
    /\ Len(s) = Len(t)
    /\ \A i \in 1..Len(s) : AsciiLower(s[i]) = AsciiLower(t[i])

\* The UTF-16LE bytes of a string.
RECURSIVE Utf16Le(_)
Utf16Le(s) ==
    IF s = <<>>
    THEN <<>>
    ELSE <<Head(s) % 256, Head(s) \div 256>> \o Utf16Le(Tail(s))

LowerStream(s) == Utf16Le([i \in 1..Len(s) |-> AsciiLower(s[i])])
UpperStream(s) == Utf16Le([i \in 1..Len(s) |-> AsciiUpper(s[i])])

\* -------------------------------------- the loading of a filename list, alone
\* The characters of the lists of the model (all ASCII): '\n', '#', '/',
\* 'A', '\' and 'a'.
LineFeed == 10
NumberSign == 35
Slash == 47
Backslash == 92
ListChars == {LineFeed, NumberSign, Slash, 65, Backslash, 97}

\* The length of the zstd magic parse_raw_file_names looks for.
ZstdMagicLen == 4

\* str::lines: the pieces between the line feeds, without a last empty one.
RECURSIVE lines(_)
lines(s) ==
    IF s = <<>>
    THEN <<>>
    ELSE IF \A i \in 1..Len(s) : s[i] # LineFeed
         THEN <<s>>
         ELSE LET k == CHOOSE i \in 1..Len(s) :
                          s[i] = LineFeed /\ \A j \in 1..(i - 1) : s[j] # LineFeed
              IN  <<SubSeq(s, 1, k - 1)>> \o lines(SubSeq(s, k + 1, Len(s)))

\* line.starts_with('#')
starts_with_number_sign(line) == Len(line) > 0 /\ line[1] = NumberSign

\* line.replace('\\', "/")
replace_backslashes(line) ==
    [i \in 1..Len(line) |-> IF line[i] = Backslash THEN Slash ELSE line[i]]

\* FileNameFull::hash_mixed: the murmur3 hashes of the UTF-16LE bytes of
\* name.to_uppercase() and name.to_lowercase(), which change the ASCII
\* letters only on the characters of the model; a hash is identified with
\* the bytes digested.
FileNameFull_hash_mixed(name) ==
    [upper |-> UpperStream(name), lower |-> LowerStream(name)]

\* HashMap::insert
insert(file_names, hash, name) ==
    {e \in file_names : e.hash # hash} \cup {[hash |-> hash, name |-> name]}

\* FileNameTable::from_list
RECURSIVE from_list(_, _)
from_list(file_names, list) ==
    IF list = <<>>
    THEN file_names
    ELSE LET name == replace_backslashes(Head(list)) IN
         from_list(insert(file_names, FileNameFull_hash_mixed(name), name),
                   Tail(list))

\* FileNameTable::from_bytes: parse_raw_file_names slices bytes[0..4] (and
\* takes the text as it is, not starting with the zstd magic), the lines
\* starting with '#' are dropped, from_list inserts the others.
from_bytes(bytes) ==
    IF Len(bytes) < ZstdMagicLen
    THEN [state |-> "panicked", file_names |-> {}]
    ELSE [state |-> "loaded",
          file_names |->
             from_list({}, SelectSeq(lines(bytes),
                                     LAMBDA l : ~starts_with_number_sign(l)))]

\* The content of a list file.
InitList ==
    /\ \E bytes \in SeqsUpTo(ListChars, MaxListLen) :
         loader = [state |-> "file", bytes |-> bytes, file_names |-> {}]
    /\ resolver = Unused
    /\ hasher = Unused
    /\ codec = Unused
    /\ table_reader = Unused
    /\ decryptor = Unused
    /\ chunked = Unused
    /\ sniffer = Unused
    /\ parser = Unused
    /\ writer = Unused
    /\ NoReaders
    /\ NoExtraction

FromBytes ==
    /\ loader.state = "file"
    /\ LET r == from_bytes(loader.bytes) IN
         loader' = [loader EXCEPT !.state = r.state,
                                  !.file_names = r.file_names]
    /\ UNCHANGED <<ex_vars, rd_vars, lib_vars, resolver, hasher, codec,
                 pure_vars>>

NextList == FromBytes

SpecList == InitList /\ [][NextList]_vars

\* --------------------------------- an entry record parsed and re-serialised
\* Bitwise operations on the numbers of the model.
RECURSIVE BitAnd(_, _)
BitAnd(a, b) ==
    IF a = 0 \/ b = 0
    THEN 0
    ELSE 2 * BitAnd(a \div 2, b \div 2) + (IF a % 2 = 1 /\ b % 2 = 1 THEN 1 ELSE 0)

RECURSIVE BitOr(_, _)
BitOr(a, b) ==
    IF a = 0 THEN b
    ELSE IF b = 0 THEN a
    ELSE 2 * BitOr(a \div 2, b \div 2) + (IF a % 2 = 1 \/ b % 2 = 1 THEN 1 ELSE 0)

\* a & !m
BitClear(a, m) == a - BitAnd(a, m)

\* The value of little-endian bytes, and the n little-endian bytes of a value.
RECURSIVE from_le_bytes(_)
from_le_bytes(bs) ==
    IF bs = <<>> THEN 0 ELSE Head(bs) + 256 * from_le_bytes(Tail(bs))

RECURSIVE le_bytes(_, _)
le_bytes(v, n) ==
    IF n = 0 THEN <<>> ELSE <<v % 256>> \o le_bytes(v \div 256, n - 1)

\* The masks of From<PakEntry> for EntryV2: bits 0..3 and bits 16..23.
ATTR_COMPRESSION_MASK == 15
ATTR_ENCRYPTION_MASK == 16711680

\* KnownAttr::KNOWN_MASK: bit 24, `offset is chunk index`.
ATTR_KNOWN_MASK == 16777216

\* What KnownAttr::from_all_attr keeps of the attribute word: the known
\* sub-fields only, or every bit of the words of the model.
KnownSubFields ==
    BitOr(BitOr(ATTR_COMPRESSION_MASK, ATTR_ENCRYPTION_MASK), ATTR_KNOWN_MASK)
AllAttrBits == Pow2(AttrBits) - 1
KnownAttrKeeps == {KnownSubFields, AllAttrBits}

\* KnownAttr::from_all_attr, bits, offset_is_chunk_index, compression_bits
\* and encryption_bits.
from_all_attr(all_attr, keeps) == BitAnd(all_attr, keeps)
offset_is_chunk_index(known_attr) == BitAnd(known_attr, ATTR_KNOWN_MASK) # 0
compression_bits(known_attr) == BitAnd(known_attr, ATTR_COMPRESSION_MASK)
encryption_bits(known_attr) ==
    BitAnd(known_attr, ATTR_ENCRYPTION_MASK) \div Pow2(16)

\* CompressionType::from_bits_truncate: the bits of DEFLATE (1) and ZSTD (2).
CompressionType_from_bits_truncate(bits) == BitAnd(bits, 3)

\* From<u32> for EncryptionType, as the enum's discriminant: 0..4, and
\* TypeInvalid = 5 for every other value.
EncryptionType_from(value) == IF value <= 4 THEN value ELSE 5

\* EntryV2::read_from_bytes: the fields of a 48-byte record.
read_from_bytes(bs) ==
    [hash_name_lower |-> from_le_bytes(SubSeq(bs, 1, 4)),
     hash_name_upper |-> from_le_bytes(SubSeq(bs, 5, 8)),
     offset |-> from_le_bytes(SubSeq(bs, 9, 16)),
     compressed_size |-> from_le_bytes(SubSeq(bs, 17, 24)),
     uncompressed_size |-> from_le_bytes(SubSeq(bs, 25, 32)),
     attributes |-> from_le_bytes(SubSeq(bs, 33, 40)),
     checksum |-> from_le_bytes(SubSeq(bs, 41, 48))]

\* EntryV2::into_bytes
EntryV2_into_bytes(v) ==
    le_bytes(v.hash_name_lower, 4) \o le_bytes(v.hash_name_upper, 4)
        \o le_bytes(v.offset, 8) \o le_bytes(v.compressed_size, 8)
        \o le_bytes(v.uncompressed_size, 8) \o le_bytes(v.attributes, 8)
        \o le_bytes(v.checksum, 8)

\* From<spec::EntryV2> for PakEntry
PakEntry_from(value, keeps) ==
    LET all_attr == value.attributes
        known_attr == from_all_attr(all_attr, keeps)
    IN  [hash_name_lower |-> value.hash_name_lower,
         hash_name_upper |-> value.hash_name_upper,
         offset |-> [kind |-> IF offset_is_chunk_index(known_attr)
                              THEN "ChunkIndex" ELSE "FileOffset",
                     raw |-> value.offset],
         compressed_size |-> value.compressed_size,
         uncompressed_size |-> value.uncompressed_size,
         compression_type |->
            CompressionType_from_bits_truncate(compression_bits(known_attr)),
         encryption_type |-> EncryptionType_from(encryption_bits(known_attr)),
         checksum |-> value.checksum,
         known_attr |-> known_attr,
         all_attr |-> all_attr]

\* From<PakEntry> for spec::EntryV2: the known masks are cleared and the
\* typed fields and known_attr.bits() are or-ed in.
EntryV2_from(value) ==
    LET cleared == BitClear(value.all_attr,
                            BitOr(BitOr(ATTR_COMPRESSION_MASK,
                                        ATTR_ENCRYPTION_MASK),
                                  ATTR_KNOWN_MASK))
        all_attr == BitOr(BitOr(BitOr(cleared, value.compression_type),
                                value.encryption_type * Pow2(16)),
                          value.known_attr)
    IN  [hash_name_lower |-> value.hash_name_lower,
         hash_name_upper |-> value.hash_name_upper,
         offset |-> value.offset.raw,
         compressed_size |-> value.compressed_size,
         uncompressed_size |-> value.uncompressed_size,
         attributes |-> all_attr,
         checksum |-> value.checksum]

\* PakEntry::into_bytes_v2
into_bytes_v2(entry) == EntryV2_into_bytes(EntryV2_from(entry))

\* The attribute words of the model: a compression nibble, an encryption
\* byte, the chunk-index bit, and bits of bits 4..15 and of bits 25 and up.
CompressionNibbles == {0, 1, 2, 3, 4, 15}
EncryptionBytes == {0, 1, 4, 5, 8, 255}
OtherLowBits == {0, 1, 2748}
OtherHighBits == {0, Pow2(AttrBits - 25) - 1}
AttributeWords ==
    {c + 16 * l + Pow2(16) * e + Pow2(24) * k + Pow2(25) * h :
        c \in CompressionNibbles, l \in OtherLowBits, e \in EncryptionBytes,
        k \in {0, 1}, h \in OtherHighBits}

\* The other fields of the records of the model.
FieldValues == {0, 457365}

\* A 48-byte V2 entry record.
InitEntry ==
    /\ \E attributes \in AttributeWords, f \in FieldValues,
          keeps \in KnownAttrKeeps :
         codec = [state |-> "bytes",
                  keeps |-> keeps,
                  bytes |-> EntryV2_into_bytes(
                               [hash_name_lower |-> f,
                                hash_name_upper |-> f + 1,
                                offset |-> f + 2,
                                compressed_size |-> f + 3,
                                uncompressed_size |-> f + 4,
                                attributes |-> attributes,
                                checksum |-> f + 5]),
                  entry |-> PakEntry_from(read_from_bytes([i \in 1..48 |-> 0]),
                                          keeps),
                  out |-> <<>>]
    /\ resolver = Unused
    /\ hasher = Unused
    /\ loader = Unused
    /\ table_reader = Unused
    /\ decryptor = Unused
    /\ chunked = Unused
    /\ sniffer = Unused
    /\ parser = Unused
    /\ writer = Unused
    /\ NoReaders
    /\ NoExtraction

\* The record parsed: EntryV2::read_from_bytes, then PakEntry::from.
ParseEntry ==
    /\ codec.state = "bytes"
    /\ codec' = [codec EXCEPT
          !.state = "parsed",
          !.entry = PakEntry_from(read_from_bytes(codec.bytes), codec.keeps)]
    /\ UNCHANGED <<ex_vars, rd_vars, lib_vars, resolver, hasher, loader,
                 pure_vars>>

\* The entry re-serialised: PakEntry::into_bytes_v2.
IntoBytesV2 ==
    /\ codec.state = "parsed"
    /\ codec' = [codec EXCEPT !.state = "written",
                              !.out = into_bytes_v2(codec.entry)]
    /\ UNCHANGED <<ex_vars, rd_vars, lib_vars, resolver, hasher, loader,
                 pure_vars>>

NextEntry ==
    \/ ParseEntry
    \/ IntoBytesV2

SpecEntry == InitEntry /\ [][NextEntry]_vars

\* ================================================= read_chunk_table, alone
\* meta of a raw chunk, and of a zstd chunk of one byte (length << 10).
RAW_META == 536870912
ZstdMeta == 1024
Metas == {RAW_META, ZstdMeta}

\* count is a u32: a table has fewer than 2^32 chunks.
TableLens == 0..Min(MaxTableLen, Pow2(LowBits) - 1)
StartLows == 0..(Pow2(LowBits) - 1)

\* The u32 words of a chunk table section: block_size, count, and per chunk
\* start_low and meta.
RECURSIVE TableWords(_, _)
TableWords(start_lows, metas) ==
    IF start_lows = <<>> THEN <<>>
    ELSE <<Head(start_lows), Head(metas)>>
           \o TableWords(Tail(start_lows), Tail(metas))

\* high.wrapping_add(1u64 << 32) when the low word is not above the one
\* before it.
wrap_on_equal(high, prev, start_low) ==
    IF start_low <= prev
    THEN (high + Pow2(LowBits)) % Pow2(2 * LowBits)
    ELSE high

\* Lines 73-75: high.wrapping_add(1u64 << 32) when the low word went down.
wrap(high, prev, start_low) ==
    IF start_low < prev
    THEN (high + Pow2(LowBits)) % Pow2(2 * LowBits)
    ELSE high

\* The loop of lines 72-79 over the pairs left, with high and prev as the
\* iterations before left them.
RECURSIVE reconstruct(_, _, _, _)
reconstruct(start_lows, metas, high, prev) ==
    IF start_lows = <<>> THEN <<>>
    ELSE LET start_low == Head(start_lows)
             high2 == wrap(high, prev, start_low)
         IN  <<[start |-> BitOr(high2, start_low), meta |-> Head(metas)]>>
               \o reconstruct(Tail(start_lows), Tail(metas), high2, start_low)

\* A reader over the words of a chunk table section that declares count
\* chunks and holds the pairs of start_lows and metas, all of them or (the
\* stream ending early) all but the last.
InitTable ==
    /\ \E n \in TableLens, block_size \in 0..1, short \in BOOLEAN :
         \E start_lows \in [1..n -> StartLows], metas \in [1..n -> Metas] :
            /\ short => n + 1 \in TableLens
            /\ table_reader =
                 [state |-> "start",
                  words |-> <<block_size, IF short THEN n + 1 ELSE n>>
                              \o TableWords(start_lows, metas),
                  pos |-> 0, block_size |-> 0, count |-> 0,
                  start_lows |-> <<>>, metas |-> <<>>, chunks |-> <<>>]
    /\ decryptor = Unused
    /\ resolver = Unused
    /\ hasher = Unused
    /\ loader = Unused
    /\ codec = Unused
    /\ chunked = Unused
    /\ sniffer = Unused
    /\ parser = Unused
    /\ writer = Unused
    /\ NoReaders
    /\ NoExtraction

\* The words a reader has left.
WordsLeft(t) == Len(t.words) - t.pos

\* Lines 58-59: block_size and count.
TableReadHeader ==
    /\ table_reader.state = "start"
    /\ table_reader' =
         IF WordsLeft(table_reader) < 2
         THEN [table_reader EXCEPT !.state = "failed"]
         ELSE [table_reader EXCEPT !.state = "pairs", !.pos = 2,
                                   !.block_size = table_reader.words[1],
                                   !.count = table_reader.words[2]]
    /\ UNCHANGED <<ex_vars, rd_vars, lib_vars, resolver, hasher, loader,
                   codec, decryptor>>

\* Lines 63-66: one iteration, start_low and meta of the next chunk.
TableReadPair ==
    /\ table_reader.state = "pairs"
    /\ Len(table_reader.start_lows) < table_reader.count
    /\ table_reader' =
         IF WordsLeft(table_reader) < 2
         THEN [table_reader EXCEPT !.state = "failed"]
         ELSE [table_reader EXCEPT
                 !.pos = table_reader.pos + 2,
                 !.start_lows = Append(table_reader.start_lows,
                                  table_reader.words[table_reader.pos + 1]),
                 !.metas = Append(table_reader.metas,
                             table_reader.words[table_reader.pos + 2])]
    /\ UNCHANGED <<ex_vars, rd_vars, lib_vars, resolver, hasher, loader,
                   codec, decryptor>>

\* Lines 68-81: the 64-bit starts, and the table returned.
TableReconstruct ==
    /\ table_reader.state = "pairs"
    /\ Len(table_reader.start_lows) = table_reader.count
    /\ table_reader' =
         [table_reader EXCEPT
            !.state = "done",
            !.chunks = reconstruct(table_reader.start_lows,
                         table_reader.metas, 0,
                         IF table_reader.start_lows = <<>> THEN 0
                         ELSE Head(table_reader.start_lows))]
    /\ UNCHANGED <<ex_vars, rd_vars, lib_vars, resolver, hasher, loader,
                   codec, decryptor>>

NextTable ==
    \/ TableReadHeader
    \/ TableReadPair
    \/ TableReconstruct

SpecTable == InitTable /\ [][NextTable]_vars

\* ========================================== decrypt_resource_data, alone
\* MODULUS and EXPONENT, numbers of 33 bytes in the code.
MODULUS == 11
EXPONENT == 3

\* BigUint::modpow.
RECURSIVE modpow(_, _, _)
modpow(base, exp, modulus) ==
    IF exp = 0 THEN 1 % modulus
    ELSE (base * modpow(base, exp - 1, modulus)) % modulus

\* BigUint::to_u64_digits().first(): the low digit of a number, none for 0
\* (the digits of zero are the empty vector).
NoDigit == 0 - 1
first_u64_digit(n) == IF n = 0 THEN NoDigit ELSE n % Pow2(8 * DigitBytes)

\* The halves of a block: keys (0, 1 and two more, of modpow 0, 1, 8, 5) and
\* data (below and above the modpow of a key, and of more than one digit).
Keys == {0, 1, 2, 3}
Datas == {0, 1, 7, 40, 5 * Pow2(8 * DigitBytes) + 258}
Blocks == [k : Keys, c : Datas]

\* The decrypted_size a stream declares: one whose capacity the allocator
\* grants, one beyond isize::MAX, and u64::MAX.
DeclaredSizes == {"fits", "too_big", "max"}

\* A stream of blocks after the declared size (or a stream that ends before
\* it), with or without an incomplete block at its end.
InitDecrypt ==
    /\ \E has_size \in BOOLEAN, size \in DeclaredSizes,
          overflow_checks \in BOOLEAN,
          blocks \in SeqsUpTo(Blocks, MaxBlocks), partial \in BOOLEAN :
         /\ ~has_size => (size = "fits" /\ ~overflow_checks
                          /\ blocks = <<>> /\ ~partial)
         /\ decryptor = [state |-> "start", has_size |-> has_size,
                         size |-> size, overflow_checks |-> overflow_checks,
                         blocks |-> blocks, partial |-> partial,
                         pos |-> 0, decrypted_data |-> <<>>]
    /\ table_reader = Unused
    /\ resolver = Unused
    /\ hasher = Unused
    /\ loader = Unused
    /\ codec = Unused
    /\ chunked = Unused
    /\ sniffer = Unused
    /\ parser = Unused
    /\ writer = Unused
    /\ NoReaders
    /\ NoExtraction

\* Lines 22-23: read_u64 and Vec::with_capacity(decrypted_size + 1).
DecryptReadSize ==
    /\ decryptor.state = "start"
    /\ decryptor' =
         IF ~decryptor.has_size
         THEN [decryptor EXCEPT !.state = "failed"]
         ELSE IF decryptor.size = "max" /\ decryptor.overflow_checks
         THEN [decryptor EXCEPT !.state = "panicked"]
         ELSE IF decryptor.size = "too_big"
         THEN [decryptor EXCEPT !.state = "panicked"]
         ELSE [decryptor EXCEPT !.state = "loop"]
    /\ UNCHANGED <<ex_vars, rd_vars, lib_vars, resolver, hasher, loader,
                   codec, table_reader>>

\* Lines 35-44: what one block adds to decrypted_data.
decrypt_block(block) ==
    LET r == modpow(block.k, EXPONENT, MODULUS)
    IN  IF r = 0 THEN [panic |-> TRUE, bytes |-> <<>>]
        ELSE LET digits == first_u64_digit(block.c \div r)
             IN  [panic |-> FALSE,
                  bytes |-> IF digits = NoDigit THEN <<>>
                            ELSE le_bytes(digits, DigitBytes)]

\* Lines 26-45: one iteration of the loop; read_exact of 128 bytes ends the
\* loop at the end of the stream or at an incomplete block.
DecryptBlock ==
    /\ decryptor.state = "loop"
    /\ decryptor' =
         IF decryptor.pos = Len(decryptor.blocks)
         THEN [decryptor EXCEPT !.state = "trim"]
         ELSE LET res == decrypt_block(decryptor.blocks[decryptor.pos + 1])
              IN  IF res.panic
                  THEN [decryptor EXCEPT !.state = "panicked"]
                  ELSE [decryptor EXCEPT
                          !.pos = decryptor.pos + 1,
                          !.decrypted_data =
                             decryptor.decrypted_data \o res.bytes]
    /\ UNCHANGED <<ex_vars, rd_vars, lib_vars, resolver, hasher, loader,
                   codec, table_reader>>

\* Lines 48-50: the padding zeros are popped.
RECURSIVE remove_padding_zeros(_)
remove_padding_zeros(data) ==
    IF data # <<>> /\ data[Len(data)] = 0
    THEN remove_padding_zeros(SubSeq(data, 1, Len(data) - 1))
    ELSE data

\* Lines 47-52.
DecryptTrim ==
    /\ decryptor.state = "trim"
    /\ decryptor' =
         [decryptor EXCEPT
            !.state = "done",
            !.decrypted_data = remove_padding_zeros(decryptor.decrypted_data)]
    /\ UNCHANGED <<ex_vars, rd_vars, lib_vars, resolver, hasher, loader,
                   codec, table_reader>>

NextDecrypt ==
    \/ DecryptReadSize
    \/ DecryptBlock
    \/ DecryptTrim

SpecDecrypt == InitDecrypt /\ [][NextDecrypt]_vars

\* ========================================= the entries of a v2.0 archive
\* The EntryV1 records of the model: an offset and an uncompressed_size.
EntriesV1 == [offset : 0..(FileLen - 1), uncompressed_size : 0..FileLen]

\* From<spec::EntryV1> for PakEntry: the offset is a byte offset, and what
\* the record does not carry is the default: compressed_size 0.
PakEntry_from_v1(value) ==
    [kind |-> "FileOffset", offset |-> value.offset, size |-> 0,
     uncompressed_size |-> value.uncompressed_size]

\* PakFile::open_entry for an entry read_entries_v1 made.
OpenEntryV1(r, value) == OpenEntry(r, PakEntry_from_v1(value))

NextReadersV1 ==
    \/ \E r \in 1..NumReaders, value \in EntriesV1 : OpenEntryV1(r, value)
    \/ \E r \in 1..NumReaders, n \in 1..MaxRead : ReadMmapRange(r, n)
    \/ \E r \in 1..NumReaders, n \in 1..MaxRead : ReadTake(r, n)

SpecReadersV1 == InitReaders /\ [][NextReadersV1]_vars

\* ================================================================= claims
Returned == pc = "returned"
ReturnedOk == Returned /\ ret.kind = "ok"
ReturnedErr == Returned /\ ret.kind = "err"

Emitted(e) == e \in DOMAIN events
EventsOf(type) == {e \in DOMAIN events : e.type = type}
FileDoneOf(i) == {e \in EventsOf("FileDone") : e.task = i}
FailedItems == {i \in Tasks : \E e \in FileDoneOf(i) : e.error # "none"}
EmittedOnce(S) == Cardinality(S) = 1 /\ \A e \in S : events[e] = 1

\* The files of the output directory item i created or wrote.
TouchedBy(i) == {p \in Paths : fs[p].exists /\ (fs[p].task = i \/ fs[p].by = i)}

\* The step is item i's pass of its entry boundary (the call of should_abort
\* at the head of its closure).
BoundaryCheck(i) ==
    /\ pc = "work"
    /\ st[i] = "pending"
    /\ \/ st'[i] \in {"aborted", "opened", "done"}
       \/ mode = "Sequential" /\ MayBegin(i) /\ pc' = "finish"

\* The entries of the archive that survive skip_unknown and the filter.
Surviving ==
    {k \in 1..Len(archive) :
        /\ (file_name_table.some /\ archive[k].hash \in file_name_table.known)
             \/ ~skip_unknown
        /\ filter.some => archive[k].hash \in filter.accepts}

\* ---------------------------------------------------------------------- C1
\* C1: with overwrite=false, an item whose output path holds a file when the
\* extractor reaches it (opens the output) ends with an error as its result
\* (FileDone carries it), and that step leaves the output directory, the
\* file included, as it was.
C1_ExistingTargetIsErrorAndKept ==
    [][\A i \in Tasks :
         (BoundaryCheck(i) /\ st'[i] # "aborted" /\ pc' # "finish"
            /\ ~overwrite /\ fs[OutPath(i)].exists)
         => /\ st'[i] = "done"
            /\ FileDoneEv(i, "AlreadyExists") \in DOMAIN events'
            /\ FileDoneEv(i, "none") \notin DOMAIN events'
            /\ fs' = fs]_vars

\* An item found a file left by an earlier run at its path, reported the
\* error, and the file is still the old one.
C1_Witness ==
    \E i \in Tasks :
        /\ pc \in {"work", "finish", "returned"}
        /\ ~overwrite
        /\ Emitted(FileDoneEv(i, "AlreadyExists"))
        /\ fs[OutPath(i)] = OldFile(OutPath(i))

\* ---------------------------------------------------------------------- C2
\* The bytes an entry's reader yields when it is read alone: the entry's
\* range of the file, as far as the file goes, or the entry's length from
\* its first chunk on; none when open_entry rejects the entry.
Rejected(e) ==
    \/ e.kind = "ChunkIndex" /\ ~ChunkedNewOk(e.offset, e.size)
    \/ e.kind = "FileOffset" /\ backend = "Mmap" /\ e.offset + e.size > FileLen

ReadAlone(e) ==
    CASE Rejected(e) -> <<>>
      [] e.kind = "ChunkIndex" ->
           Slice(e.offset * BlockSize, e.offset * BlockSize + e.size)
      [] OTHER -> Slice(e.offset, Min(e.offset + e.size, FileLen))

IsPrefix(s, t) == Len(s) <= Len(t) /\ s = SubSeq(t, 1, Len(s))

\* C2: on both backends, whatever the interleaving of the operations on the
\* readers open_entry handed out, each reader yields the bytes it yields
\* when read alone: what it has yielded so far is a prefix of them, all of
\* them when it reports the end, and it fails only when it fails alone.
C2_ReadersIndependent ==
    \A r \in 1..NumReaders :
        /\ IsPrefix(readers[r].out, ReadAlone(readers[r].entry))
        /\ readers[r].state = "eof"
             => readers[r].out = ReadAlone(readers[r].entry)
        /\ readers[r].state = "failed" => Rejected(readers[r].entry)

\* ---------------------------------------------------------------------- C3
\* C3, as the spec states it: with continue_on_error=true the report has
\* extracted + skipped + failed equal to the size of the plan.
C3_CountsSumToPlanSize ==
    (ReturnedOk /\ continue_on_error)
    => ret.report.extracted + ret.report.skipped + ret.report.failed
         = Cardinality(Surviving)

\* C3, amended: with continue_on_error=true and the cancel flag never set,
\* the report has extracted + failed equal to the size of the plan (the
\* entries surviving the filter and skip_unknown), and skipped equal to the
\* number of entries that did not survive.
C3_ExtractedPlusFailedIsPlanSize ==
    (ReturnedOk /\ continue_on_error /\ ~cancel_flag)
    => /\ ret.report.extracted + ret.report.failed = Cardinality(Surviving)
       /\ ret.report.skipped = Len(archive) - Cardinality(Surviving)
       /\ Len(tasks) = Cardinality(Surviving)

\* A finished, never cancelled run with continue_on_error that skipped an
\* entry and failed on the item it planned.
C3_Witness ==
    /\ ReturnedOk /\ continue_on_error /\ ~cancel_flag
    /\ ret.report.skipped > 0
    /\ ret.report.failed > 0

C5_SkippedState ==
    pc \in {"work", "finish", "returned"} =>
      \A i \in Tasks :
        /\ st[i] \in {"pending", "aborted", "dropped"}
             => (~Emitted(FileStartEv(i)) /\ FileDoneOf(i) = {} /\ TouchedBy(i) = {})
        /\ (pc = "work" /\ st[i] = "opened") => ENABLED Copy(i)
        /\ (pc = "work" /\ st[i] = "copied") => ENABLED Rename(i)
        /\ pc # "work" => st[i] \notin {"opened", "copied"}

\* C5, over the run: the state above always, and the step of an item that
\* passes its entry boundary with the flag set emits nothing, writes nothing
\* and leaves the item unstarted for good.
C5_CancelSkipsAtBoundary ==
    /\ []C5_SkippedState
    /\ [][\A i \in Tasks :
            (BoundaryCheck(i) /\ cancel_flag)
            => /\ events' = events
               /\ fs' = fs
               /\ st'[i] \in {"pending", "aborted"}
               /\ cancel_flag']_vars

\* A parallel run in which, with the flag set, one item was skipped at its
\* boundary while another, in flight when the flag was set, has completed.
C5_Witness ==
    /\ pc = "work" /\ mode = "Parallel" /\ cancel_flag
    /\ \E i, j \in Tasks :
         /\ st[i] = "aborted"
         /\ st[j] = "done" /\ Emitted(FileDoneEv(j, "none"))
         /\ TouchedBy(j) # {}

\* ---------------------------------------------------------------------- C6
\* The run was cut short on the cancel flag: before dispatch, or at an item's
\* entry boundary.
CutShort ==
    /\ Returned
    /\ \/ Emitted(AbortedEv)
       \/ \E i \in Tasks : st[i] = "aborted"
       \/ mode = "Sequential" /\ ret.kind = "ok" /\ \E i \in Tasks : st[i] = "pending"

\* C6: a run cut short on the cancel flag has emitted Aborted and returns Ok
\* with a report whose counts are those of the items completed so far.
C6_CutShortEmitsAborted ==
    CutShort
    => /\ Emitted(AbortedEv)
       /\ ret.kind = "ok"
       /\ ret.report.extracted
            = Cardinality({i \in Tasks : Emitted(FileDoneEv(i, "none"))})
       /\ ret.report.failed = Cardinality(FailedItems)

\* ---------------------------------------------------------------------- C7
\* C7: in a sequential run without continue_on_error, once an item has failed
\* run() has returned that item's error, and no later item has been started:
\* it has emitted no event and touched no file.
C7_SequentialFirstErrorEndsRun ==
    (pc \in {"work", "finish", "returned"} /\ mode = "Sequential" /\ ~continue_on_error)
    => \A i \in FailedItems :
         /\ ReturnedErr
         /\ ret.task = i
         /\ Emitted(FileDoneEv(i, ret.error))
         /\ \A j \in Tasks :
              j > i => /\ st[j] = "pending"
                       /\ ~Emitted(FileStartEv(j))
                       /\ FileDoneOf(j) = {}
                       /\ TouchedBy(j) = {}
              

\* A sequential run without continue_on_error that extracted its first item,
\* failed on the second and returned that item's error.
C7_Witness ==
    /\ mode = "Sequential" /\ ~continue_on_error /\ ReturnedErr
    /\ Len(tasks) >= 2
    /\ Emitted(FileDoneEv(1, "none"))
    /\ ret.task = 2

\* ---------------------------------------------------------------------- C8
\* C8: in a parallel run without continue_on_error in which an item failed,
\* run() does not return Ok: when it has returned, it returned the error of a
\* failed item, and every item that emitted FileStart has emitted its
\* FileDone.
C8_ParallelFailFastReturnsError ==
    (Returned /\ mode = "Parallel" /\ ~continue_on_error /\ FailedItems # {})
    => /\ ret.kind = "err"
       /\ ret.task \in FailedItems
       /\ Emitted(FileDoneEv(ret.task, ret.error))
       /\ \A i \in Tasks :
            Emitted(FileStartEv(i)) => EmittedOnce(FileDoneOf(i))

\* A parallel fail-fast run that returned an error although an item started
\* before the failure completed successfully after it.
C8_Witness ==
    /\ ReturnedErr /\ mode = "Parallel" /\ ~continue_on_error
    /\ \E i, j \in Tasks :
         /\ i # j
         /\ ret.task = i
         /\ Emitted(FileDoneEv(j, "none"))

\* ---------------------------------------------------------------------- C9
\* The failed items whose error tuple is t.
FailedWith(t) ==
    {i \in FailedItems :
        /\ t.hash = tasks[i].entry.hash
        /\ t.path = tasks[i].rel
        /\ Emitted(FileDoneEv(i, t.msg))}

Occurrences(seq, t) == Cardinality({k \in 1..Len(seq) : seq[k] = t})

\* C9: with continue_on_error=true, in either mode, run() never returns an
\* item's error; when it returns its report and the cancel flag was never
\* set, every planned item was attempted (it emitted FileStart and FileDone),
\* report.errors holds one (hash, path, message) tuple per failed item and
\* nothing else, and report.failed is its length.
C9_ContinueOnErrorCollects ==
    (Returned /\ continue_on_error)
    => /\ ret.kind = "err" => ret.task = 0
       /\ (ret.kind = "ok" /\ ~cancel_flag)
            => /\ \A i \in Tasks :
                    Emitted(FileStartEv(i)) /\ EmittedOnce(FileDoneOf(i))
               /\ Len(ret.report.errors) = Cardinality(FailedItems)
               /\ \A k \in 1..Len(ret.report.errors) :
                    Occurrences(ret.report.errors, ret.report.errors[k])
                      = Cardinality(FailedWith(ret.report.errors[k]))
               /\ \A i \in FailedItems :
                    \E k \in 1..Len(ret.report.errors) :
                       i \in FailedWith(ret.report.errors[k])
               /\ ret.report.failed = Len(ret.report.errors)

\* A parallel run with continue_on_error whose first item failed and whose
\* second was extracted all the same.
C9_Witness ==
    /\ ReturnedOk /\ continue_on_error /\ ~cancel_flag /\ mode = "Parallel"
    /\ Len(tasks) = 2
    /\ 1 \in FailedItems
    /\ Emitted(FileDoneEv(2, "none"))
    /\ ret.report.failed = 1

\* --------------------------------------------------------------------- C10
\* C10, in a state: once an event has been emitted, Start was, once, with the
\* number of planned items; a returned, never cancelled run has emitted one
\* Finish with the report's counts, every item done.
C10_State ==
    /\ DOMAIN events # {} =>
         /\ EmittedOnce(EventsOf("Start"))
         /\ Emitted(StartEv(Cardinality(Surviving)))
         /\ Len(tasks) = Cardinality(Surviving)
    /\ (ReturnedOk /\ ~cancel_flag) =>
         /\ EmittedOnce(EventsOf("Finish"))
         /\ Emitted(FinishEv(ret.report.extracted, ret.report.skipped,
                             ret.report.failed))
         /\ \A i \in Tasks : st[i] = "done" /\ FileDoneOf(i) # {}

\* C10: the first event of a run is Start{total}, emitted once, with total
\* the number of planned items; a run that returns a report with the cancel
\* flag never set has emitted exactly one Finish, whose counts are the
\* report's, after the FileDone of every item, and no event follows Finish.
C10_StartFirstFinishLast ==
    /\ []C10_State
    /\ [][/\ (DOMAIN events = {} /\ events' # events)
               => StartEv(Len(tasks)) \in DOMAIN events'
          /\ EventsOf("Finish") # {} => events' = events]_vars

\* A finished, never cancelled run of two items whose Finish reports one
\* extracted and one failed.
C10_Witness ==
    /\ ReturnedOk /\ ~cancel_flag
    /\ Emitted(StartEv(2))
    /\ Emitted(FinishEv(1, 0, 1))

\* --------------------------------------------------------------- C11, C12
\* ceil(a / b).
CeilDiv(a, b) == (a + b - 1) \div b

\* What decoding chunk number idx (from 0) of the reader's table yields, and
\* whether the chunk lies in the file and decodes to one block.
DecodedChunk(c, idx) ==
    LET desc == c.table.chunks[idx + 1]
        bytes == SubSeq(c.file, desc.start + 1,
                        desc.start + (IF desc.is_raw THEN c.table.block_size
                                      ELSE desc.comp_len))
    IN  IF desc.is_raw THEN bytes ELSE decode_all(bytes).bytes
SoundChunk(c, idx) ==
    LET desc == c.table.chunks[idx + 1]
    IN  /\ desc.start + (IF desc.is_raw THEN c.table.block_size
                         ELSE desc.comp_len) <= Len(c.file)
        /\ Len(DecodedChunk(c, idx)) = c.table.block_size

\* The chunks start .. start + ceil(L / block_size) - 1 of the entry.
ChunksOf(c) ==
    c.start_chunk ..
      (c.start_chunk + CeilDiv(c.total_len, c.table.block_size) - 1)

\* An entry whose start chunk is in the table and whose chunks are all
\* there, each decoding to one block.
ChunkedWellFormed(c) ==
    /\ c.table.block_size > 0
    /\ c.start_chunk < Len(c.table.chunks)
    /\ \A idx \in ChunksOf(c) :
         idx < Len(c.table.chunks) /\ SoundChunk(c, idx)

\* The decoded chunks of the entry, one after the other, truncated to L.
ExpectedOutput(c) ==
    [i \in 1..c.total_len |->
        DecodedChunk(c, c.start_chunk + (i - 1) \div c.table.block_size)
          [((i - 1) % c.table.block_size) + 1]]

C12_ConstructionChecksBounds ==
    (/\ chunked.state \notin {"unused", "new"}
     /\ chunked.total_len > 0
     /\ chunked.table.block_size > 0) =>
       IF chunked.start_chunk
            + CeilDiv(chunked.total_len, chunked.table.block_size)
          <= Len(chunked.table.chunks)
       THEN TRUE
       ELSE /\ chunked.state = "rejected"
            /\ chunked.err = "InvalidChunkIndex"
            /\ chunked.fetched = 0

\* --------------------------------------------------------------- C13, C14
\* C13: the magic sniffer passes the stream under it through: with every
\* sequence of caller buffer sizes and every pattern of short reads what its
\* reads have returned is the head of the stream, byte for byte, and the
\* whole stream once a read returned 0; it never keeps more than 8 bytes.
C13_SnifferIsTransparent ==
    sniffer.state # "unused" =>
       /\ sniffer.state # "panicked"
       /\ IsPrefix(sniffer.out, sniffer.stream)
       /\ sniffer.state = "eof" => sniffer.out = sniffer.stream
       /\ sniffer.magic_read_length <= MagicLen

\* C14: reading the entry reader of an entry of any compression kind to EOF
\* yields exactly uncompressed_size bytes (the length of the decoded
\* payload): never more, and exactly as many once a read returned 0.
C14_EntryReaderYieldsUncompressedSize ==
    (sniffer.state # "unused" /\ sniffer.kind \in CompressionKinds) =>
       /\ Len(sniffer.out) <= Len(sniffer.stream)
       /\ sniffer.state = "eof" => Len(sniffer.out) = Len(sniffer.stream)

\* -------------------------------------------------------------------- C15
\* A header with the magic, a version and feature bits read_archive takes.
ValidHeader(h) ==
    /\ h.magic = "KPKA"
    /\ h.major_version \in {2, 4}
    /\ h.minor_version \in {0, 1}
    /\ h.feature \subseteq {ENTRY_ENCRYPTION, EXTRA_U32, UNK_1}

\* The error the claim names for a header that is not valid: the first of
\* magic, version and feature bits that is wrong.
HeaderError(h) ==
    IF h.magic # "KPKA"
    THEN [kind |-> "InvalidMagic", expected |-> "KPKA", found |-> h.magic]
    ELSE IF ~(h.major_version \in {2, 4} /\ h.minor_version \in {0, 1})
    THEN [kind |-> "UnsupportedVersion", major |-> h.major_version,
          minor |-> h.minor_version]
    ELSE [kind |-> "UnsupportedFeature", feature |-> h.feature]

ParserReturned == parser.state \in {"done", "failed", "panicked"}

\* C15: read_archive returns an archive only for a valid header (and a
\* complete file, with all the entries the header declares); for a header
\* that is not valid it fails with InvalidMagic, UnsupportedVersion or
\* UnsupportedFeature, the first that applies; on a file that ends before
\* the header or before what a valid header declares it fails with an IO
\* error and returns no archive.
C15_HeaderValidatedInOrder ==
    (parser.state # "unused" /\ ParserReturned) =>
       LET h == parser.header IN
       /\ parser.state = "done" =>
            /\ ValidHeader(h)
            /\ parser.file_len >= Demanded(h)
            /\ parser.archive.some
            /\ parser.archive.entries = h.total_files
       /\ (parser.file_len >= HeaderSize /\ ~ValidHeader(h)) =>
            parser.state = "failed" /\ parser.err = HeaderError(h)
       /\ (\/ parser.file_len < HeaderSize
           \/ ValidHeader(h) /\ parser.file_len < Demanded(h)) =>
            /\ parser.state = "failed"
            /\ parser.err.kind = "IO"
            /\ ~parser.archive.some

\* --------------------------------------------------------------- C16..C20
\* The writer after new_with_options returned it.
WriterStarted == writer.state \in {"open", "finished", "failed", "dropped",
                                   "panicked"}

\* C16: start_file fails once the started files would be more than the
\* pre-allocated count N: the writer never holds more than N entries.
C16_StartFileRefusesBeyondN ==
    (writer.state # "unused" /\ WriterStarted) =>
       Len(writer.files) <= writer.pak_options.pre_allocate_entry_count

\* What read_archive yields on the sink read from its start: whether it
\* succeeds, the header and the entries. Bytes that are not an encoded
\* header make no valid header, bytes that are not an encoded entry parse
\* as an entry of other values (NoEntry).
NoEntry ==
    [hash |-> 0 - 1, offset |-> 0 - 1, compressed_size |-> 0 - 1,
     uncompressed_size |-> 0 - 1]
DecodeEntry(sk, at) ==
    LET c0 == CellAt(sk, at)
    IN  IF \A o \in 0..(EntryV2Size - 1) :
             CellAt(sk, at + o) = [c0 EXCEPT !.t = "ent", !.i = o + 1]
        THEN [hash |-> c0.a, offset |-> c0.b, compressed_size |-> c0.c,
              uncompressed_size |-> c0.d]
        ELSE NoEntry
ReadArchiveOf(sk) ==
    LET c0 == CellAt(sk, 0)
        encoded == \A o \in 0..(HeaderSize - 1) :
                      CellAt(sk, o) = [c0 EXCEPT !.t = "hdr", !.i = o + 1]
        h == [magic |-> IF encoded THEN "KPKA" ELSE "none",
              major_version |-> c0.a, minor_version |-> c0.b,
              feature |-> {}, total_files |-> c0.c]
        ok == /\ sk.len >= HeaderSize
              /\ try_from(h).kind = "none"
              /\ sk.len >= HeaderSize + entry_size(h) * h.total_files
              /\ h.total_files
                   * (IF h.major_version = 2 /\ h.minor_version = 0
                      THEN EntryV1Size ELSE EntryV2Size)
                 <= entry_size(h) * h.total_files
    IN  [ok |-> ok, header |-> h,
         entries |-> IF ok
                     THEN [k \in 1..h.total_files |->
                             DecodeEntry(sk, HeaderSize
                                               + (k - 1) * entry_size(h))]
                     ELSE <<>>]

\* C17: after finish, read_archive on the output succeeds with a 4.0
\* header whose total_files is the number of files started and with their
\* entries in the order they were started; each entry has both sizes equal
\* to the bytes written to its file, and the output holds these bytes, in
\* order, at [offset, offset + compressed_size) - with fewer, as many or
\* more files than pre-allocated.
C17_WriterRoundTrip ==
    (writer.state # "unused" /\ writer.state \in {"finished", "failed"}) =>
       LET ar == ReadArchiveOf(writer.inner) IN
       /\ writer.state = "finished"
       /\ ar.ok
       /\ ar.header.major_version = 4 /\ ar.header.minor_version = 0
       /\ ar.header.total_files = Len(writer.written)
       /\ Len(ar.entries) = Len(writer.written)
       /\ \A f \in 1..Len(ar.entries) :
            /\ ar.entries[f].hash = NameHash(f)
            /\ ar.entries[f].compressed_size = writer.written[f]
            /\ ar.entries[f].uncompressed_size = writer.written[f]
            /\ \A k \in 1..writer.written[f] :
                 /\ ar.entries[f].offset + k <= writer.inner.len
                 /\ CellAt(writer.inner, ar.entries[f].offset + k - 1)
                      = DataCell(f, k)

\* A finished writer with more files than pre-allocated (finish moved the
\* payloads), two of them with data.
C17_Witness ==
    /\ writer.state = "finished"
    /\ Len(writer.files) > writer.pak_options.pre_allocate_entry_count
    /\ writer.pak_options.pre_allocate_entry_count > 0
    /\ \E f, g \in 1..Len(writer.written) :
         f # g /\ writer.written[f] > 1 /\ writer.written[g] > 0

\* C18: the entry start_file creates lies where its payload begins, at the
\* end of the data written so far: at 16 + 48 * N for the first file and at
\* the previous entry's offset + compressed_size for each later one.
C18_PayloadsBackToBack ==
    (writer.state # "unused" /\ writer.state = "open") =>
       /\ \A f \in 1..Len(writer.files) :
            writer.files[f].offset =
              IF f = 1
              THEN HeaderSize
                     + writer.pak_options.pre_allocate_entry_count
                         * EntryV2Size
              ELSE writer.files[f - 1].offset
                     + writer.files[f - 1].compressed_size
       /\ writer.writing_to_file =>
            writer.inner.pos =
              writer.files[Len(writer.files)].offset + writer.bytes_written

\* The bytes of an entry of the output.
RangeOf(e) == e.offset .. (e.offset + e.compressed_size - 1)

\* C19: in the output of finish no entry's bytes lie in the TOC
\* [0, 16 + 48 * count) and the bytes of two entries never overlap, whether
\* or not finish moved the payloads.
C19_TocReservedAndDisjoint ==
    (writer.state # "unused" /\ writer.state = "finished") =>
       LET ar == ReadArchiveOf(writer.inner)
           toc == 0 .. (HeaderSize + EntryV2Size * Len(ar.entries) - 1)
       IN  /\ ar.ok
           /\ \A f \in 1..Len(ar.entries) :
                /\ ar.entries[f] # NoEntry
                /\ RangeOf(ar.entries[f]) \cap toc = {}
           /\ \A f, g \in 1..Len(ar.entries) :
                f # g => RangeOf(ar.entries[f]) \cap RangeOf(ar.entries[g])
                           = {}

\* A finished writer with more files than pre-allocated, two with data.
C19_Witness ==
    /\ writer.state = "finished"
    /\ Len(writer.files) > writer.pak_options.pre_allocate_entry_count
    /\ \E f, g \in 1..Len(writer.files) :
         /\ f # g
         /\ writer.files[f].compressed_size > 0
         /\ writer.files[g].compressed_size > 0

\* C20: the writer panics when it is dropped with a file open (start_file
\* was called, finish has not run), and only then: not when dropped before
\* any start_file, and not at the end of finish.
C20_DropPanicsIffFileOpen ==
    writer.state # "unused" =>
       /\ writer.state = "panicked" =>
            writer.last = "drop" /\ writer.written # <<>>
       /\ writer.state = "dropped" => writer.written = <<>>
       /\ writer.state \in {"finished", "failed"} => writer.last # "drop"

\* A writer dropped after its second start_file.
C20_Witness ==
    writer.state = "panicked" /\ Len(writer.written) = 2

\* -------------------------------------------------------------------- C21
\* C21: a byte-offset entry whose range [offset, offset + compressed_size)
\* ends past the end of the PAK file gets a bounds error on either backend
\* when it is opened or read: its reader never yields a byte and never
\* reports the end of a (truncated) payload.
C21_RangePastEndIsBoundsError ==
    \A r \in 1..NumReaders :
        (/\ readers[r].state # "closed"
         /\ readers[r].entry.kind = "FileOffset"
         /\ readers[r].entry.offset + readers[r].entry.size > FileLen) =>
           /\ readers[r].out = <<>>
           /\ readers[r].state # "eof"

\* -------------------------------------------------------------------- C23
\* An item's output file is open: from the open of extract_one to its end.
FileOpen(i) == i \in DOMAIN st /\ st[i] \in {"opened", "copied"}

\* C23: in a parallel run no two planned items share an output path, before
\* or after the extension rename, whatever the archive (duplicate hashes
\* included), so no two workers have the same file open for writing at the
\* same time.
C23_WorkersWriteDistinctPaths ==
    mode = "Parallel" =>
        \A i \in Tasks : \A j \in Tasks \ {i} :
            /\ OutPath(i) # OutPath(j)
            /\ WithExtension(OutPath(i), "tex") # OutPath(j)
            /\ ~(FileOpen(i) /\ FileOpen(j) /\ handle[i] = handle[j])

\* Two workers of a parallel run hold the same output file open.
C23_TwoWritersOfOneFile ==
    /\ mode = "Parallel"
    /\ \E i \in Tasks : \E j \in Tasks \ {i} :
          FileOpen(i) /\ FileOpen(j) /\ handle[i] = handle[j]

\* -------------------------------------------------------------------- C24
\* The entries among the first n of the archive that have a known name or
\* are kept by skip_unknown = false, and that the predicate, if any, accepts:
\* their positions, in archive order.
SurvivingUpTo(n) ==
    SelectSeq([k \in 1..n |-> k], LAMBDA k : k \in Surviving)

\* C24: the plan holds exactly the entries of the archive walked so far that
\* (have a known name or skip_unknown is false) and that the predicate, if
\* any, accepts, in archive order; skipped is the number of entries planning
\* excluded; the predicate is applied to the entries skip_unknown did not
\* exclude and to no other; and a sequential run begins an item only when
\* every item before it in the plan is done.
C24_PlanIsSurvivorsInOrder ==
    LET kept == SurvivingUpTo(walked) IN
    /\ Len(tasks) = Len(kept)
    /\ \A i \in Tasks : tasks[i].entry = archive[kept[i]]
    /\ skipped = walked - Len(kept)
    /\ \A c \in 1..Len(filter_calls) :
          HasName(filter_calls[c].entry.hash) \/ ~skip_unknown
    /\ filter.some =>
          filter_calls =
             [c \in 1..Len(filter_calls) |-> FilterCall(filter_calls[c].entry)]
    /\ Len(filter_calls) =
          IF filter.some
          THEN Cardinality({k \in 1..walked :
                              HasName(archive[k].hash) \/ ~skip_unknown})
          ELSE 0
    /\ mode = "Sequential" =>
          \A i \in DOMAIN st : st[i] # "pending" =>
              \A j \in 1..(i - 1) : st[j] = "done"
    /\ ReturnedOk => ret.report.skipped = Len(archive) - Len(tasks)

\* A sequential run that has returned its report: skip_unknown excluded an
\* entry, to which the predicate was not applied, and the predicate excluded
\* another.
C24_Witness ==
    /\ ReturnedOk /\ mode = "Sequential"
    /\ skip_unknown /\ filter.some
    /\ Len(archive) = 2
    /\ Len(filter_calls) = 1
    /\ ret.report.skipped = 2

\* -------------------------------------------------------------------- C22
\* The file a path names lies below the output directory.
InsideRoot(root, p) ==
    LET r == Location(root)
        l == Location(p)
    IN  Len(l) > Len(r) /\ SubSeq(l, 1, Len(r)) = r

\* C22: every file the extractor creates, writes or renames lies inside the
\* output directory, also for a name of the filename table with `..`
\* segments or an absolute name.
C22_WritesStayInsideOutputRoot ==
    \A p \in resolver.opened \cup resolver.renamed :
        InsideRoot(resolver.output_dir, p)

\* -------------------------------------------------------------------- C25
\* C25: an entry with no known name gets the relative path `_Unknown/`
\* followed by exactly 16 hexadecimal digits, the zero-padded digits of its
\* 64-bit hash, whatever the hash (upper bits zero included).
C25_UnknownPathHas16HexDigits ==
    (resolver.state \in {"planned", "extracted"} /\ ~resolver.name.some) =>
        /\ Len(resolver.rel_path) = 9 + 16
        /\ SubSeq(resolver.rel_path, 10, 25)
             = ZeroPad(HashDigits(resolver.entry), 16)

\* -------------------------------------------------------------------- C26
\* C26: hash_mixed(s) = hash_mixed(s') for every s' that differs from s only
\* in the case of ASCII letters; the lower half is the hash of the UTF-16LE
\* stream with the ASCII letters in lower case, the upper half that of the
\* stream with them in upper case, every other code unit unchanged.
C26_HashMixedIgnoresAsciiCase ==
    hasher.state # "unused" /\ hasher.hashed =>
        /\ hasher.hash.lower = LowerStream(hasher.s)
        /\ hasher.hash.upper = UpperStream(hasher.s)
        /\ OnlyAsciiCaseDiffers(hasher.s, hasher.s2)
              => hasher.hash = hasher.hash2

\* The hashes of two different strings that differ in the case of an ASCII
\* letter only, with a unit that is not ASCII.
C26_Witness ==
    /\ hasher.state # "unused" /\ hasher.hashed
    /\ hasher.s # hasher.s2
    /\ OnlyAsciiCaseDiffers(hasher.s, hasher.s2)
    /\ \E i \in 1..Len(hasher.s) : hasher.s[i] > 127
    /\ hasher.hash = hasher.hash2

\* -------------------------------------------------------------------- C30
\* C30: whatever the sizes of the caller's buffers (0 and 1 byte included),
\* the bytes Utf16CaseReader::read returns, concatenated, are the UTF-16LE
\* encoding of the string with its ASCII letters in the reader's case: a
\* prefix of it so far, all of it at the end of the data; the reader holds a
\* high byte only between the two bytes of a unit, and no byte is dropped or
\* repeated.
C30_ReadsConcatenateToFoldedEncoding ==
    hasher.state # "unused" =>
        LET whole == IF hasher.rd.uppercase
                     THEN UpperStream(hasher.s)
                     ELSE LowerStream(hasher.s)
            held == hasher.rd.pending_high_byte # NoByte
        IN  /\ IsPrefix(hasher.out, whole)
            /\ hasher.state = "eof" => hasher.out = whole
            /\ Len(hasher.out) =
                  2 * hasher.rd.position - (IF held THEN 1 ELSE 0)
            /\ held => hasher.rd.pending_high_byte = whole[Len(hasher.out) + 1]

\* The end of the data of a string with a letter of the other case, after a
\* read that ended between the two bytes of a unit.
C30_Witness ==
    /\ hasher.state = "eof"
    /\ hasher.split
    /\ Len(hasher.s) = MaxUnits
    /\ hasher.out # Utf16Le(hasher.s)

\* -------------------------------------------------------------------- C27
\* The lines of the list that are neither empty nor comments, with their
\* backslashes replaced.
ListedNames ==
    {replace_backslashes(l) :
        l \in {lines(loader.bytes)[i] : i \in 1..Len(lines(loader.bytes))}
                 \ ({<<>>} \cup {c \in SeqsUpTo(ListChars, MaxListLen) :
                                    starts_with_number_sign(c)})}

\* C27: the table loaded from a list holds a mapping
\* hash_mixed(p) -> p for each line p that is neither empty nor starts with
\* '#', with every '\' of the line replaced by '/', and nothing else: comment
\* lines and empty lines add nothing.
C27_ListLoadsNamedLinesOnly ==
    loader.state = "loaded" =>
        /\ \A n \in ListedNames :
              \E e \in loader.file_names : e.hash = FileNameFull_hash_mixed(n)
        /\ \A e \in loader.file_names :
              e.name \in ListedNames /\ e.hash = FileNameFull_hash_mixed(e.name)

\* -------------------------------------------------------------------- C28
\* The bits of the attribute word outside the compression bits 0..3, the
\* encryption bits 16..23 and the chunk-index bit 24.
OtherBits(attributes) ==
    ((attributes \div 16) % Pow2(12)) + Pow2(12) * (attributes \div Pow2(25))

\* C28: parsing a 48-byte V2 entry record and re-serialising it with
\* into_bytes_v2 yields the same 48 bytes, whatever the record; the
\* attribute bits outside the compression, encryption and chunk-index
\* fields are preserved.
C28_EntryV2RoundTrip ==
    codec.state = "written" =>
        /\ codec.out = codec.bytes
        /\ OtherBits(read_from_bytes(codec.out).attributes)
             = OtherBits(read_from_bytes(codec.bytes).attributes)

\* -------------------------------------------------------------------- C29
\* C29: through a chunk table with block_size = 0 no chunked entry is
\* decoded: opening the entry fails with the invalid-chunk-table error,
\* without a division by zero, and no chunk is fetched and no byte returned.
C29_ZeroBlockSizeIsRejected ==
    (/\ chunked.state \notin {"unused", "new"}
     /\ chunked.table.block_size = 0) =>
        /\ chunked.state = "rejected"
        /\ chunked.err = "InvalidChunkTable"
        /\ chunked.fetched = 0
        /\ chunked.out = <<>>

\* An entry of a length above 0 whose start chunk is in the table, rejected
\* for the block size of 0 alone.
C29_Witness ==
    /\ chunked.state = "rejected"
    /\ chunked.table.block_size = 0
    /\ chunked.total_len > 0
    /\ chunked.start_chunk < Len(chunked.table.chunks)
    /\ chunked.err = "InvalidChunkTable"

\* -------------------------------------------------------------------- C31
\* A ChunkedRead that was constructed, whatever its reads made of it.
ChunkedReaderExists == chunked.state \in {"open", "eof", "failed"}

WrapsUpTo(start_lows, i) ==
    Cardinality({j \in 1..i : start_lows[j + 1] < start_lows[j]})

\* C32: in the chunk table read_chunk_table returns, the start of chunk i
\* is start_low[i] + 2^32 * (the number of positions 1 <= j <= i where
\* start_low[j] < start_low[j-1]); so the starts never go down and
\* start[i] mod 2^32 is start_low[i].
C32_StartsCountTheWraps ==
    table_reader.state = "done" =>
       /\ Len(table_reader.chunks) = table_reader.count
       /\ \A i \in 0..(table_reader.count - 1) :
            /\ table_reader.chunks[i + 1].start =
                 table_reader.start_lows[i + 1]
                   + Pow2(LowBits) * WrapsUpTo(table_reader.start_lows, i)
            /\ table_reader.chunks[i + 1].start % Pow2(LowBits) =
                 table_reader.start_lows[i + 1]
            /\ i > 0 => table_reader.chunks[i + 1].start
                          >= table_reader.chunks[i].start

\* A table of three chunks or more whose low word goes down once and stays
\* the same once.
C32_Witness ==
    /\ table_reader.state = "done"
    /\ table_reader.count >= 3
    /\ WrapsUpTo(table_reader.start_lows, table_reader.count - 1) >= 1
    /\ \E i \in 1..(table_reader.count - 1) :
         table_reader.start_lows[i + 1] = table_reader.start_lows[i]

\* -------------------------------------------------------------------- C33
\* The low digit of c / r of each block, little-endian, block after block.
RECURSIVE QuotientBytes(_)
QuotientBytes(blocks) ==
    IF blocks = <<>> THEN <<>>
    ELSE LET r == modpow(Head(blocks).k, EXPONENT, MODULUS)
         IN  le_bytes((Head(blocks).c \div r) % Pow2(8 * DigitBytes),
                      DigitBytes)
               \o QuotientBytes(Tail(blocks))

\* C33: when the loop of decrypt_resource_data has ended, and before the
\* trailing zeros are trimmed, the output holds for every complete block of
\* the stream, in block order, the bytes of the low digit of c / r - also
\* for a block whose quotient is zero: its length is the digit's length
\* times the number of blocks.
C33_OneDigitPerBlock ==
    decryptor.state = "trim" =>
       /\ decryptor.decrypted_data = QuotientBytes(decryptor.blocks)
       /\ Len(decryptor.decrypted_data)
            = DigitBytes * Len(decryptor.blocks)

\* The loop has ended over two blocks whose quotients are not zero.
C33_Witness ==
    /\ decryptor.state = "trim"
    /\ Len(decryptor.blocks) = 2
    /\ Len(decryptor.decrypted_data) = DigitBytes * 2
    /\ decryptor.partial

\* -------------------------------------------------------------------- C34
\* C34: reading an entry reader to completion terminates: over every finite
\* decoded stream, with every sequence of caller buffer sizes above 0, the
\* repeated reads come to a read that returns 0, without a panic.
C34_CopyReachesEof == <>(sniffer.state = "eof")

\* A read that returned bytes although the stream under the reader had
\* ended before it, and left the reader as it was but for the count of its
\* calls: the next read does the same.
C34_Witness ==
    /\ sniffer.state = "open"
    /\ sniffer.pos = Len(sniffer.stream)
    /\ Len(sniffer.out) > Len(sniffer.stream)
    /\ sniffer.magic_read_length < MagicLen

\* -------------------------------------------------------------------- C35
\* The planned items whose FileDone event carries no error, and those whose
\* FileDone carries one.
SucceededItems ==
    {i \in Tasks : \E e \in FileDoneOf(i) : e.error = "none"}

\* C35: in every run that returns a report with the cancel flag never set,
\* whatever the mode and continue_on_error, extracted + failed is the number
\* of planned items and extracted + failed + skipped the number of entries
\* of the archive; extracted counts the items that succeeded and failed
\* those that failed, and no item is among both.
C35_CountsPartitionThePlan ==
    (ReturnedOk /\ ~cancel_flag) =>
       /\ ret.report.extracted + ret.report.failed = Len(tasks)
       /\ ret.report.extracted + ret.report.failed + ret.report.skipped
            = Len(archive)
       /\ ret.report.extracted = Cardinality(SucceededItems)
       /\ ret.report.failed = Cardinality(FailedItems)
       /\ SucceededItems \cap FailedItems = {}
       /\ SucceededItems \cup FailedItems = Tasks

\* A report of a never cancelled sequential run that extracted an item,
\* failed on another and planned nothing else.
C35_Witness ==
    /\ ReturnedOk /\ ~cancel_flag
    /\ mode = "Sequential"
    /\ ret.report.extracted = 1
    /\ ret.report.failed = 1
    /\ Len(tasks) = 2

\* -------------------------------------------------------------------- C36
\* C36: with overwrite=false no step of the run, the rename of an
\* extension-less output to the sniffed extension included, replaces or
\* changes a file that was in the output directory before the run.
C36_RenameKeepsExistingFile ==
    [][~overwrite =>
         \A p \in Paths : fs[p] = OldFile(p) => fs'[p] = fs[p]]_vars

\* With overwrite=false, the path of a file an earlier run left holds the
\* file an item of this run created at its extension-less path.
C36_Witness ==
    /\ ~overwrite
    /\ \E p \in LeftOver, i \in Tasks :
         /\ fs[p].exists
         /\ fs[p].task = i
         /\ fs[p].at = OutPath(i)
         /\ p = WithExtension(OutPath(i), "tex")
         /\ p # OutPath(i)

\* -------------------------------------------------------------------- C37
\* The items whose extraction failed at open_entry or during the copy.
FailedInExtraction ==
    {i \in Tasks : \E e \in FileDoneOf(i) : e.error \in {"OpenEntry", "Read"}}

\* C37: an item whose extraction failed (open_entry rejected the entry, or
\* the copy met a read or decode error) has left nothing changed in the
\* output directory: no file it created, empty or partial, and no file that
\* was there before with the content this item gave it.
C37_FailedItemLeavesNoTrace ==
    \A i \in FailedInExtraction : TouchedBy(i) = {}

\* A file of an earlier run that an item open_entry rejected has emptied
\* (overwrite=true).
C37_Witness ==
    \E i \in Tasks :
        /\ Emitted(FileDoneEv(i, "OpenEntry"))
        /\ fs[OutPath(i)].exists
        /\ fs[OutPath(i)].by = i
        /\ fs[OutPath(i)].part = "empty"
        /\ fs[OutPath(i)].task = 0

\* -------------------------------------------------------------------- C38
\* C38: the TOC finish writes has one entry per successful call of
\* start_file, and the entry a call made has the sizes of the bytes written
\* to that call's file - also when a name is passed to start_file again.
C38_EveryStartFileKeepsItsEntry ==
    writer.state = "finished" =>
       /\ Len(writer.files) = Len(writer.written)
       /\ \A f \in 1..Len(writer.written) :
            \E j \in 1..Len(writer.files) :
               /\ writer.files[j].call = f
               /\ writer.files[j].compressed_size = writer.written[f]
               /\ writer.files[j].uncompressed_size = writer.written[f]

\* A finished archive for which start_file was called three times with two
\* names, bytes having been written after each call.
C38_Witness ==
    /\ writer.state = "finished"
    /\ Len(writer.written) = 3
    /\ Len(writer.files) = 2
    /\ \A f \in 1..3 : writer.written[f] > 0

\* -------------------------------------------------------------------- C39
\* The size of the entry variant a table is parsed as: EntryV1 for version
\* 2.0 only, EntryV2 for every other accepted version.
ParsedEntrySize(h) ==
    IF h.major_version = 2 /\ h.minor_version = 0
    THEN EntryV1Size ELSE EntryV2Size

\* A file that holds all that an archive of its (accepted) header is made
\* of, with entries of the variant they are parsed as, the size of the
\* table within a u32.
WellFormedArchive(ps) ==
    /\ try_from(ps.header).kind = "none"
    /\ ParsedEntrySize(ps.header) * ps.header.total_files < Pow2(U32Bits)
    /\ entry_size(ps.header) * ps.header.total_files < Pow2(U32Bits)
    /\ ps.file_len >=
         HeaderSize + ParsedEntrySize(ps.header) * ps.header.total_files
           + (IF EXTRA_U32 \in ps.header.feature THEN ExtraU32Size ELSE 0)
           + (IF ENTRY_ENCRYPTION \in ps.header.feature
              THEN RawKeySize ELSE 0)

\* C39: for every accepted version, major 2 or 4 and minor 0 or 1, the
\* bytes read for the entry table are total_files times the size of the
\* variant the entries are parsed as, and a well-formed archive with n
\* entries parses, to n entries.
C39_TableSizedForParsedVariant ==
    (parser.state # "unused" /\ WellFormedArchive(parser)) =>
       /\ parser.state \in {"extra", "key", "entries", "done"} =>
            parser.table_len =
              parser.header.total_files * ParsedEntrySize(parser.header)
       /\ parser.state \notin {"failed", "panicked"}
       /\ parser.state = "done" =>
            parser.archive.entries = parser.header.total_files

\* read_archive failed on a complete archive of version 2.1 with an entry.
C39_Witness ==
    /\ parser.state = "failed"
    /\ parser.err.kind = "IO"
    /\ WellFormedArchive(parser)
    /\ parser.header.major_version = 2
    /\ parser.header.minor_version = 1
    /\ parser.header.total_files = 1
    /\ parser.pos = HeaderSize + parser.table_len

\* -------------------------------------------------------------------- C40
\* C40: the reader of an entry of a v2.0 archive whose range
\* [offset, offset + uncompressed_size) lies in the file is opened, and read
\* to its end has yielded exactly these bytes of the file.
C40_V1EntryYieldsItsRange ==
    \A r \in 1..NumReaders :
        (/\ readers[r].state # "closed"
         /\ readers[r].entry.offset + readers[r].entry.uncompressed_size
              <= FileLen) =>
           /\ readers[r].state # "failed"
           /\ readers[r].state = "eof" =>
                readers[r].out =
                  Slice(readers[r].entry.offset,
                        readers[r].entry.offset
                          + readers[r].entry.uncompressed_size)

\* The reader of a v2.0 entry of two bytes inside the file is at its end
\* and has yielded nothing, on the file backend.
C40_Witness ==
    \E r \in 1..NumReaders :
        /\ backend = "File"
        /\ readers[r].state = "eof"
        /\ readers[r].entry.uncompressed_size = 2
        /\ readers[r].entry.offset + 2 <= FileLen
        /\ readers[r].out = <<>>

====
